---- MODULE Spec2Model ----
(***************************************************************************)
(* Three-party share conversion kernels of libspu/mpc/alkaid               *)
(* (conversion.cc): B2AByPPA, B2AByOT, eqz / EqualAA / EqualAP, MsbA2B,    *)
(* A2B and the resharings ResharingRss2Mss, ResharingAss2Rss and           *)
(* ResharingAss2Mss, run by three parties that exchange messages over      *)
(* point-to-point FIFO channels.                                           *)
(*                                                                         *)
(* A ring element or a Boolean word of width w is the set of the positions *)
(* of its 1 bits, a subset of 0..w-1, so that 32, 64 and 128 bit words are *)
(* handled alike.  Arrays have one element (numel = 1); eqz is also run on *)
(* the empty array (numel = 0).                                            *)
(***************************************************************************)
EXTENDS Integers, Sequences, FiniteSets, TLC

(***************************************************************************)
(* Bounds of the model.                                                    *)
(***************************************************************************)
\* number of sample words a share is drawn from
NSamples == 2
\* number of seeds of the pseudo-random generator
NSeeds == 2
\* number of sample words the local functions on shares are given
NBitSamples == 6

(***************************************************************************)
(* Words as sets of bit positions.                                         *)
(***************************************************************************)
Bits(w) == 0 .. (w - 1)

Zero == {}

XOR(a, b) == (a \ b) \cup (b \ a)

AND(a, b) == a \cap b

OR(a, b) == a \cup b

NOTw(a, w) == Bits(w) \ a

Trunc(a, w) == {i \in a : i < w}

SHL(a, s, w) == {i + s : i \in {j \in a : j + s < w}}

SHR(a, s) == {i - s : i \in {j \in a : j >= s}}

XOR3(a, b, c) == XOR(a, XOR(b, c))

\* the value of the 16 bits of a from position lo on
Bit(a, p, v) == IF p \in a THEN v ELSE 0

Limb(a, lo) ==
  Bit(a, lo, 1) + Bit(a, lo + 1, 2) + Bit(a, lo + 2, 4) + Bit(a, lo + 3, 8)
  + Bit(a, lo + 4, 16) + Bit(a, lo + 5, 32) + Bit(a, lo + 6, 64)
  + Bit(a, lo + 7, 128) + Bit(a, lo + 8, 256) + Bit(a, lo + 9, 512)
  + Bit(a, lo + 10, 1024) + Bit(a, lo + 11, 2048) + Bit(a, lo + 12, 4096)
  + Bit(a, lo + 13, 8192) + Bit(a, lo + 14, 16384) + Bit(a, lo + 15, 32768)

\* the bits of the number n, placed from position lo on, below position w
LimbBits(n, lo, w) ==
  {lo + j : j \in {h \in 0 .. 15 : lo + h < w /\ (n \div (2 ^ h)) % 2 = 1}}

\* a + b + c modulo 2^w, 16 bits at a time from position lo on, c the carry
RECURSIVE AddFrom(_, _, _, _, _)
AddFrom(a, b, lo, c, w) ==
  IF lo >= w THEN {}
  ELSE LET n == Limb(a, lo) + Limb(b, lo) + c
       IN LimbBits(n, lo, w) \cup AddFrom(a, b, lo + 16, n \div 65536, w)

ADD(a, b, w) == AddFrom(a, b, 0, 0, w)

NEG(a, w) == AddFrom(NOTw(a, w), {}, 0, 1, w)

SUB(a, b, w) == AddFrom(a, NOTw(b, w), 0, 1, w)

ADD3(a, b, c, w) == ADD(a, ADD(b, c, w), w)

\* the word 0 or 1 of a bit
BitWord(b) == IF b THEN {0} ELSE {}

(***************************************************************************)
(* Parties, ring widths and the inputs a run is started with.              *)
(***************************************************************************)
Ranks == 0 .. 2

NextRank(i) == (i + 1) % 3

PrevRank(i) == (i + 2) % 3

\* SizeOf(field) * 8 for FM32, FM64, FM128
Fields == {32, 64, 128}

\* width of size_t, the type of the public pivot
SizeTBits == 64

\* the j-th sample word of width w
Sample(j, w) ==
  CASE j = 0 -> {}
    [] j = 1 -> Bits(w)
    [] j = 2 -> {b \in Bits(w) : b = w - 1}
    [] j = 3 -> {b \in Bits(w) : b = 0}
    [] j = 4 -> {b \in Bits(w) : b % 2 = 0}
    [] OTHER -> {b \in Bits(w) : (b * j + b \div 3) % 3 = 1}

Samples(w) == {Sample(j, w) : j \in 0 .. (NSamples - 1)}

\* public pivots: 0, 1, 2 and the two largest values of size_t
Pivots == {{}, {0}, {1}, Bits(SizeTBits) \ {0}, Bits(SizeTBits)}

VARIABLES
  cfg,     \* the kernel that is run and its inputs (never changes)
  pc,      \* pc[i]: position of party i in the kernel
  loc,     \* loc[i]: local variables of party i
  chan,    \* chan[<<from, to>>]: messages in flight, in send order
  rlog,    \* rlog[i]: what party i received, in order
  cursor,  \* cursor[i]: bytes party i has drawn from each generator, and
           \* its calls of fillPrssPair
  out      \* out[i]: the share party i returned

vars == <<cfg, pc, loc, chan, rlog, cursor, out>>

\* the state the operators below transform
State == [pc |-> pc, loc |-> loc, chan |-> chan, rlog |-> rlog,
          cursor |-> cursor, out |-> out]

Apply(s) ==
  /\ pc' = s.pc
  /\ loc' = s.loc
  /\ chan' = s.chan
  /\ rlog' = s.rlog
  /\ cursor' = s.cursor
  /\ out' = s.out
  /\ UNCHANGED cfg

\* the two slots party i holds of a replicated sharing (x_i, x_{i+1})
InShare(x, i) == <<x[i + 1], x[NextRank(i) + 1]>>

Running(s, i) == s.pc[i] \notin {"done", "failed"}

SetPc(s, i, p) == [s EXCEPT !.pc[i] = p]

SetLoc(s, i, r) == [s EXCEPT !.loc[i] = r @@ @]

Fail(s, i) == [s EXCEPT !.pc[i] = "failed"]

\* the kernels a run evaluates one after the other, each party on its own
Plan(kernel) ==
  CASE kernel = "OTthenPPA" -> <<"B2AByOT", "B2AByPPA">>
    [] kernel = "RoundTrip" -> <<"A2B", "B2ASelector">>
    [] kernel = "BitSplit" -> <<"bit_split", "bit_split_mss">>
    [] kernel = "Rss2Mss2Rss" -> <<"ResharingRss2Mss", "ResharingMss2Rss">>
    [] kernel = "Mss2Rss2Mss" -> <<"ResharingMss2Rss", "ResharingRss2Mss">>
    [] kernel = "Ass2Rss2Ass" -> <<"ResharingAss2Rss", "ResharingRss2Ass">>
    [] kernel = "Rss2Ass2Rss" -> <<"ResharingRss2Ass", "ResharingAss2Rss">>
    [] kernel = "Ass2Mss2Ass" ->
         <<"ResharingAss2Mss", "ResharingMss2Rss", "ResharingRss2Ass">>
    [] kernel = "PackUnpackAss" -> <<"pack_2_bitvec_ass", "unpack_2_bitvec_ass">>
    [] kernel = "PackUnpackRss" -> <<"pack_2_bitvec_rss", "unpack_2_bitvec_rss">>
    [] kernel = "PackUnpackMss" -> <<"pack_2_bitvec_mss", "unpack_2_bitvec_mss">>
    [] OTHER -> <<kernel>>

\* the second kernel of a round trip takes the first kernel's result
ResharingChains ==
  {"Rss2Mss2Rss", "Mss2Rss2Mss", "Ass2Rss2Ass", "Rss2Ass2Rss", "Ass2Mss2Ass"}

Chained(kernel) == kernel \in {"RoundTrip"} \cup ResharingChains

Stage(s, i) == Len(s.out[i]) + 1

Kern(s, i) == Plan(cfg.kernel)[Stage(s, i)]

In(s, i) == s.loc[i].in

NBits(s, i) == s.loc[i].nbits

\* the selector with the bound 8 left out of the range of B2AByOT
B2ASelectorBelow8(nbits) == IF nbits < 8 THEN "B2AByOT" ELSE "B2AByPPA"

\* B2ASelector::proc: the kernel it hands its input to
B2ASelector(nbits) == IF nbits <= 8 THEN "B2AByOT" ELSE "B2AByPPA"

\* the bound on nbits one bit too wide
ValidNbitsPlusOne(nb, k) == nb <= k + 1

\* SPU_ENFORCE(in_nbits <= SizeOf(field) * 8) at the entry of B2AByPPA and
\* of B2AByOT
ValidNbits(nb, k) == nb <= k

\* the kernel party i runs, after the selector's choice
Dispatched(s, i) ==
  IF Kern(s, i) = "B2ASelector" THEN B2ASelector(NBits(s, i)) ELSE Kern(s, i)

\* the kernel returns o: the party goes on with the next kernel of the plan
Return(s, i, o) ==
  LET l    == s.loc[i]
      last == Stage(s, i) = Len(Plan(cfg.kernel))
      nl   == [in    |-> IF Chained(cfg.kernel) THEN o ELSE l.in,
               rhs   |-> l.rhs,
               nbits |-> IF cfg.kernel = "RoundTrip" THEN cfg.k ELSE l.nbits] @@ l
  IN [s EXCEPT !.pc[i] = IF last THEN "done" ELSE "start",
               !.loc[i] = nl,
               !.out[i] = Append(@, o)]

(***************************************************************************)
(* The communicator: point-to-point FIFO channels.                         *)
(***************************************************************************)
\* sendAsync(to, val, tag); a party has no channel to itself
SendAsync(s, from, to, val, tag) ==
  IF from = to THEN Fail(s, from)
  ELSE [s EXCEPT !.chan[<<from, to>>] = Append(@, [tag |-> tag, val |-> val])]

CanRecv(s, from, to) == from /= to /\ s.chan[<<from, to>>] /= <<>>

RecvVal(s, from, to) == Head(s.chan[<<from, to>>]).val

\* recv(from, tag): takes the oldest message of the channel
Recv(s, from, to, tag) ==
  LET m == Head(s.chan[<<from, to>>])
  IN [s EXCEPT !.chan[<<from, to>>] = Tail(@),
               !.rlog[to] = Append(@, [from |-> from, want |-> tag,
                                       got |-> m.tag, val |-> m.val])]

\* the rank rotate(buf, tag) receives from, and the rank it sends to
RotateFrom(i) == IF cfg.fromNext THEN NextRank(i) ELSE PrevRank(i)

RotateTo(i) == IF cfg.fromNext THEN PrevRank(i) ELSE NextRank(i)

\* rotateR is rotate in the opposite direction
RotateRFrom(i) == RotateTo(i)

RotateRTo(i) == RotateFrom(i)

(***************************************************************************)
(* The pseudo-random generator: one stream per key, read at a byte offset. *)
(* Key j of 0..2 is shared by parties j-1 and j (party i holds keys i and  *)
(* i+1); key 3+i is private to party i.  A word of a stream is a run of    *)
(* ones or its complement, placed by the key, the offset and the seed.     *)
(***************************************************************************)
Mix(key, off) ==
  (off + 1) * (2 * key + 3) + cfg.seed * (off + key + 1) * 5 + key

Min(a, b) == IF a < b THEN a ELSE b

\* the w-bit word at byte offset off of the stream of key
PrgWord(key, off, w) ==
  LET h   == Mix(key, off)
      lo  == h % (w + 1)
      hi  == Min(lo + ((h \div 5) % (w + 1)), w - 1)
      run == lo .. hi
  IN IF h % 2 = 0 THEN run \cup {} ELSE Bits(w) \ run

\* n words of width w starting at byte offset off
PrgVec(key, off, n, w) == [e \in 1 .. n |-> PrgWord(key, off + (e - 1) * (w \div 8), w)]

\* fillPrssPair: r0 comes from the party's own key, r1 from the next party's
PrssFirst(i, off, n, w) == PrgVec(i, off, n, w)

PrssSecond(i, off, n, w) == PrgVec(NextRank(i), off, n, w)

\* every call of fillPrssPair advances the cursor, whatever it fills; draws
\* keeps the calls a party made: the number of elements and their size
DrawPrss(s, i, n, w) ==
  [s EXCEPT !.cursor[i].prss = @ + n * (w \div 8),
            !.cursor[i].draws = Append(@, <<n, w \div 8>>)]

DrawPubl(s, i, bytes) == [s EXCEPT !.cursor[i].publ = @ + bytes]

DrawPriv(s, i, bytes) == [s EXCEPT !.cursor[i].priv = @ + bytes]

(***************************************************************************)
(* Role assignment by the public pivot (B2AByOT and eqz).                  *)
(***************************************************************************)
\* a word of size_t modulo 3: 2^b is 1 modulo 3 for even b and 2 for odd b
SumMod3(a) ==
  (Cardinality({b \in a : b % 2 = 0}) + 2 * Cardinality({b \in a : b % 2 = 1})) % 3

RoleP0(pivot) == SumMod3(pivot)

RoleP1(pivot) == SumMod3(ADD(pivot, {0}, SizeTBits))

RoleP2(pivot) == SumMod3(ADD(pivot, {1}, SizeTBits))

(***************************************************************************)
(* bitDecompose and bitCompose.                                            *)
(***************************************************************************)
bitDecompose(v, nbits) == [b \in 1 .. nbits |-> (b - 1) \in v]

\* res += in[bit] << bit for the bits from bit on; the sum is taken by halves
RECURSIVE bitComposeFrom(_, _, _, _)
bitComposeFrom(in, bit, nbits, k) ==
  IF bit >= nbits THEN {}
  ELSE IF bit + 1 = nbits THEN SHL(in[bit + 1], bit, k)
  ELSE ADD(bitComposeFrom(in, bit, (bit + nbits) \div 2, k),
           bitComposeFrom(in, (bit + nbits) \div 2, nbits, k), k)

\* bitCompose without the lowest bit
bitComposeShifted(in, nbits, k) == bitComposeFrom(in, 1, nbits, k)

bitCompose(in, nbits, k) == bitComposeFrom(in, 0, nbits, k)

(***************************************************************************)
(* B2AByOT::proc, one step of party i: from its position to its next       *)
(* blocking recv.                                                          *)
(***************************************************************************)
\* the helper with its message sent twice
OTHelperTwoSends(s, i, r0, P1) ==
  LET k  == cfg.k
      nb == NBits(s, i)
      c  == s.cursor[i].prss
      sz == nb * (k \div 8)
      b2 == bitDecompose(In(s, i)[2], nb)
      m0 == PrssFirst(i, c + sz, nb, k)
      m1 == PrssFirst(i, c + 2 * sz, nb, k)
      mc == [b \in 1 .. nb |-> IF ~b2[b] THEN m0[b] ELSE m1[b]]
      s1 == DrawPrss(DrawPrss(DrawPrss(s, i, nb, k), i, nb, k), i, nb, k)
      s2 == SendAsync(SendAsync(s1, i, P1, mc, "mc"), i, P1, mc, "mc")
  IN IF s2.pc[i] = "failed" THEN s2
     ELSE SetPc(SetLoc(s2, i, [c1 |-> bitCompose(r0, nb, k), ot_r0 |-> r0]), i,
               "ot_recv_c2")

\* the helper, up to its recv of c2
OTHelper(s, i, r0, P1) ==
  LET k  == cfg.k
      nb == NBits(s, i)
      c  == s.cursor[i].prss
      sz == nb * (k \div 8)
      b2 == bitDecompose(In(s, i)[2], nb)
      m0 == PrssFirst(i, c + sz, nb, k)
      m1 == PrssFirst(i, c + 2 * sz, nb, k)
      mc == [b \in 1 .. nb |-> IF ~b2[b] THEN m0[b] ELSE m1[b]]
      s1 == DrawPrss(DrawPrss(DrawPrss(s, i, nb, k), i, nb, k), i, nb, k)
      s2 == SendAsync(s1, i, P1, mc, "mc")
  IN IF s2.pc[i] = "failed" THEN s2
     ELSE SetPc(SetLoc(s2, i, [c1 |-> bitCompose(r0, nb, k), ot_r0 |-> r0]), i,
               "ot_recv_c2")

\* the receiver with two calls of fillPrssPair, the second for both masks
OTReceiverTwoDraws(s, i, r1) ==
  LET k  == cfg.k
      nb == NBits(s, i)
      b2 == bitDecompose(In(s, i)[1], nb)
      s1 == DrawPrss(DrawPrss(s, i, nb, k), i, 2 * nb, k)
  IN SetPc(SetLoc(s1, i, [b2 |-> b2, r1 |-> r1]), i, "ot_recv_mc")

\* the receiver, up to its recv of mc
OTReceiver(s, i, r1) ==
  LET k  == cfg.k
      nb == NBits(s, i)
      b2 == bitDecompose(In(s, i)[1], nb)
      s1 == DrawPrss(DrawPrss(DrawPrss(s, i, nb, k), i, nb, k), i, nb, k)
  IN SetPc(SetLoc(s1, i, [b2 |-> b2, r1 |-> r1]), i, "ot_recv_mc")

\* the sender with its two sends in the other order
OTSenderM1First(s, i, r0, r1, P1) ==
  LET k   == cfg.k
      nb  == cfg.nbits
      c   == s.cursor[i].prss
      sz  == nb * (k \div 8)
      c3  == bitCompose(r0, nb, k)
      c1  == bitCompose(r1, nb, k)
      xx  == XOR(In(s, i)[1], In(s, i)[2])
      t   == [b \in 1 .. nb |-> ADD(r0[b], r1[b], k)]
      v0  == [b \in 1 .. nb |-> SUB(BitWord((b - 1) \in xx), t[b], k)]
      v1  == [b \in 1 .. nb |-> SUB(BitWord((b - 1) \notin xx), t[b], k)]
      g0  == PrssSecond(i, c + sz, nb, k)
      g1  == PrssSecond(i, c + 2 * sz, nb, k)
      m0  == [b \in 1 .. nb |-> XOR(g0[b], v0[b])]
      m1  == [b \in 1 .. nb |-> XOR(g1[b], v1[b])]
      s1  == DrawPrss(DrawPrss(DrawPrss(s, i, nb, k), i, nb, k), i, nb, k)
      s2  == SendAsync(s1, i, P1, m1, "m1")
      s3  == IF s2.pc[i] = "failed" THEN s2 ELSE SendAsync(s2, i, P1, m0, "m0")
  IN IF s3.pc[i] = "failed" THEN s3
     ELSE Return(SetLoc(s3, i, [ot_r0 |-> r0, ot_r1 |-> r1]), i, <<c3, c1>>)

\* the sender with the messages of the two choices exchanged
OTSenderChoiceSwapped(s, i, r0, r1, P1) ==
  LET k   == cfg.k
      nb  == cfg.nbits
      c   == s.cursor[i].prss
      sz  == nb * (k \div 8)
      c3  == bitCompose(r0, nb, k)
      c1  == bitCompose(r1, nb, k)
      xx  == XOR(In(s, i)[1], In(s, i)[2])
      t   == [b \in 1 .. nb |-> ADD(r0[b], r1[b], k)]
      v0  == [b \in 1 .. nb |-> SUB(BitWord((b - 1) \notin xx), t[b], k)]
      v1  == [b \in 1 .. nb |-> SUB(BitWord((b - 1) \in xx), t[b], k)]
      g0  == PrssSecond(i, c + sz, nb, k)
      g1  == PrssSecond(i, c + 2 * sz, nb, k)
      m0  == [b \in 1 .. nb |-> XOR(g0[b], v0[b])]
      m1  == [b \in 1 .. nb |-> XOR(g1[b], v1[b])]
      s1  == DrawPrss(DrawPrss(DrawPrss(s, i, nb, k), i, nb, k), i, nb, k)
      s2  == SendAsync(s1, i, P1, m0, "m0")
      s3  == IF s2.pc[i] = "failed" THEN s2 ELSE SendAsync(s2, i, P1, m1, "m1")
  IN IF s3.pc[i] = "failed" THEN s3
     ELSE Return(SetLoc(s3, i, [ot_r0 |-> r0, ot_r1 |-> r1]), i, <<c3, c1>>)

\* the sender, which returns without receiving anything
OTSender(s, i, r0, r1, P1) ==
  LET k   == cfg.k
      nb  == cfg.nbits
      c   == s.cursor[i].prss
      sz  == nb * (k \div 8)
      c3  == bitCompose(r0, nb, k)
      c1  == bitCompose(r1, nb, k)
      xx  == XOR(In(s, i)[1], In(s, i)[2])
      t   == [b \in 1 .. nb |-> ADD(r0[b], r1[b], k)]
      v0  == [b \in 1 .. nb |-> SUB(BitWord((b - 1) \in xx), t[b], k)]
      v1  == [b \in 1 .. nb |-> SUB(BitWord((b - 1) \notin xx), t[b], k)]
      g0  == PrssSecond(i, c + sz, nb, k)
      g1  == PrssSecond(i, c + 2 * sz, nb, k)
      m0  == [b \in 1 .. nb |-> XOR(g0[b], v0[b])]
      m1  == [b \in 1 .. nb |-> XOR(g1[b], v1[b])]
      s1  == DrawPrss(DrawPrss(DrawPrss(s, i, nb, k), i, nb, k), i, nb, k)
      s2  == SendAsync(s1, i, P1, m0, "m0")
      s3  == IF s2.pc[i] = "failed" THEN s2 ELSE SendAsync(s2, i, P1, m1, "m1")
  IN IF s3.pc[i] = "failed" THEN s3
     ELSE Return(SetLoc(s3, i, [ot_r0 |-> r0, ot_r1 |-> r1]), i, <<c3, c1>>)

\* B2AByOT with the pivot drawn before the case of no bits is taken
B2AByOTStartPivotFirst(s, i) ==
  LET k  == cfg.k
      nb == NBits(s, i)
  IN IF ~ValidNbits(nb, k) THEN Fail(s, i)
     ELSE IF nb = 0 THEN Return(DrawPubl(s, i, SizeTBits \div 8), i, <<{}, {}>>)
     ELSE LET s0 == DrawPubl(s, i, SizeTBits \div 8)
              P0 == RoleP0(cfg.pivot)
              P1 == RoleP1(cfg.pivot)
              P2 == RoleP2(cfg.pivot)
              c  == s.cursor[i].prss
              r0 == PrssFirst(i, c, nb, k)
              r1 == PrssSecond(i, c, nb, k)
          IN IF i = P0 THEN OTHelper(s0, i, r0, P1)
             ELSE IF i = P1 THEN OTReceiver(s0, i, r1)
             ELSE IF i = P2 THEN OTSender(s0, i, r0, r1, P1)
             ELSE Fail(s0, i)

B2AByOTStart(s, i) ==
  LET k  == cfg.k
      nb == NBits(s, i)
  IN IF ~ValidNbits(nb, k) THEN Fail(s, i)
     ELSE IF nb = 0 THEN Return(s, i, <<{}, {}>>)
     ELSE LET s0 == DrawPubl(s, i, SizeTBits \div 8)
              P0 == RoleP0(cfg.pivot)
              P1 == RoleP1(cfg.pivot)
              P2 == RoleP2(cfg.pivot)
              c  == s.cursor[i].prss
              r0 == PrssFirst(i, c, nb, k)
              r1 == PrssSecond(i, c, nb, k)
          IN IF i = P0 THEN OTHelper(s0, i, r0, P1)
             ELSE IF i = P1 THEN OTReceiver(s0, i, r1)
             ELSE IF i = P2 THEN OTSender(s0, i, r0, r1, P1)
             ELSE Fail(s0, i)

\* the rank party i waits for at its position, and the tag it asks for
OTWait(s, i) ==
  CASE s.pc[i] = "ot_recv_c2" -> [from |-> RoleP1(cfg.pivot), tag |-> "c2"]
    [] s.pc[i] = "ot_recv_mc" -> [from |-> RoleP0(cfg.pivot), tag |-> "mc"]
    [] s.pc[i] = "ot_recv_m0" -> [from |-> RoleP2(cfg.pivot), tag |-> "m0"]
    [] s.pc[i] = "ot_recv_m1" -> [from |-> RoleP2(cfg.pivot), tag |-> "m1"]

B2AByOTRecv(s, i) ==
  LET k  == cfg.k
      nb == NBits(s, i)
      w  == OTWait(s, i)
      v  == RecvVal(s, w.from, i)
      s1 == Recv(s, w.from, i, w.tag)
      l  == s.loc[i]
  IN CASE s.pc[i] = "ot_recv_c2" -> Return(s1, i, <<l.c1, v[1]>>)
       [] s.pc[i] = "ot_recv_mc" -> SetPc(SetLoc(s1, i, [mc |-> v]), i, "ot_recv_m0")
       [] s.pc[i] = "ot_recv_m0" -> SetPc(SetLoc(s1, i, [m0 |-> v]), i, "ot_recv_m1")
       [] s.pc[i] = "ot_recv_m1" ->
            LET mc == [b \in 1 .. nb |->
                         IF ~l.b2[b] THEN XOR(l.m0[b], l.mc[b]) ELSE XOR(v[b], l.mc[b])]
                c2 == bitCompose(mc, nb, k)
                s2 == SendAsync(s1, i, RoleP0(cfg.pivot), <<c2>>, "c2")
                c3 == bitCompose(l.r1, nb, k)
            IN IF s2.pc[i] = "failed" THEN s2
               ELSE Return(SetLoc(s2, i, [ot_mc |-> mc]), i, <<c2, c3>>)

\* party i can take its next step of B2AByOT
B2AByOTReady(s, i) ==
  /\ Running(s, i)
  /\ Dispatched(s, i) = "B2AByOT"
  /\ IF s.pc[i] = "start" THEN TRUE ELSE CanRecv(s, OTWait(s, i).from, i)

B2AByOTStep(s, i) ==
  IF s.pc[i] = "start" THEN B2AByOTStart(s, i) ELSE B2AByOTRecv(s, i)

(***************************************************************************)
(* B2AByPPA::proc.                                                         *)
(***************************************************************************)
\* up to the recv of rotate "b2a.rand"
B2AByPPAStart(s, i) ==
  LET k  == cfg.k
      nb == NBits(s, i)
      c  == s.cursor[i].prss
      sz == k \div 8
      ra0 == PrssFirst(i, c, 1, k)[1]
      ra1 == PrssSecond(i, c, 1, k)[1]
      rb0 == PrssFirst(i, c + sz, 1, k)[1]
      rb1 == PrssSecond(i, c + sz, 1, k)[1]
      zb  == XOR(rb0, rb1)
      nrb0 == IF i = 1 THEN XOR(zb, ADD(ra0, ra1, k)) ELSE zb
      s1  == DrawPrss(DrawPrss(s, i, 1, k), i, 1, k)
      s2  == SendAsync(s1, i, RotateTo(i), <<nrb0>>, "b2a.rand")
  IN IF ~ValidNbits(nb, k) THEN Fail(s, i)
     ELSE IF nb = 0 THEN Return(s, i, <<{}, {}>>)
     ELSE SetPc(SetLoc(s2, i, [ra0 |-> ra0, rb0 |-> nrb0, ra |-> <<ra0, ra1>>]), i,
               "ppa_rot_rand")

\* the kernel after add_bb with the rotation started before the reveal
B2AByPPARevealRotateFirst(s, i) ==
  LET k   == cfg.k
      l   == s.loc[i]
      ra0 == IF i = 0
               THEN XOR3(l.x_plus_r[1], l.x_plus_r[2], RecvVal(s, 2, 0)[1])
               ELSE NEG(l.ra0, k)
      s1  == IF i = 0 THEN Recv(s, 2, 0, "reveal.x_plus_r.to.P0") ELSE s
      s2  == SendAsync(s1, i, RotateTo(i), <<ra0>>, "b2a.rotate")
      s3  == IF i = 2
               THEN SendAsync(s2, 2, 0, <<l.x_plus_r[1]>>, "reveal.x_plus_r.to.P0")
               ELSE s2
  IN SetPc(SetLoc(s3, i, [ra0 |-> ra0]), i, "ppa_rot_out")

\* the rest of the kernel after add_bb, up to the recv of rotate "b2a.rotate"
B2AByPPAReveal(s, i) ==
  LET k   == cfg.k
      l   == s.loc[i]
      s1  == IF i = 0 THEN Recv(s, 2, 0, "reveal.x_plus_r.to.P0")
             ELSE IF i = 2
               THEN SendAsync(s, 2, 0, <<l.x_plus_r[1]>>, "reveal.x_plus_r.to.P0")
               ELSE s
      ra0 == IF i = 0
               THEN XOR3(l.x_plus_r[1], l.x_plus_r[2], RecvVal(s, 2, 0)[1])
               ELSE NEG(l.ra0, k)
      s2  == SendAsync(s1, i, RotateTo(i), <<ra0>>, "b2a.rotate")
  IN SetPc(SetLoc(s2, i, [ra0 |-> ra0]), i, "ppa_rot_out")

B2AByPPARecv(s, i) ==
  LET l  == s.loc[i]
      v  == RecvVal(s, RotateFrom(i), i)
  IN CASE s.pc[i] = "ppa_rot_rand" ->
            SetPc(SetLoc(Recv(s, RotateFrom(i), i, "b2a.rand"), i,
                         [x |-> l.in, r |-> <<l.rb0, v[1]>>]), i, "add_bb")
       [] s.pc[i] = "ppa_rot_out" ->
            Return(Recv(s, RotateFrom(i), i, "b2a.rotate"), i, <<l.ra0, v[1]>>)

B2AByPPAReady(s, i) ==
  /\ Running(s, i)
  /\ Dispatched(s, i) = "B2AByPPA"
  /\ CASE s.pc[i] = "start" -> TRUE
       [] s.pc[i] = "ppa_reveal" -> (i = 0 => CanRecv(s, 2, 0))
       [] s.pc[i] = "add_bb" -> FALSE
       [] OTHER -> CanRecv(s, RotateFrom(i), i)

B2AByPPAStep(s, i) ==
  CASE s.pc[i] = "start" -> B2AByPPAStart(s, i)
    [] s.pc[i] = "ppa_reveal" -> B2AByPPAReveal(s, i)
    [] OTHER -> B2AByPPARecv(s, i)

(***************************************************************************)
(* add_bb of the boolean layer, as the functionality it computes: a fresh  *)
(* replicated sharing of X + R, X and R the values its two arguments       *)
(* reconstruct to.  All three parties take part.                           *)
(***************************************************************************)
AddBBShares(s) ==
  LET k  == cfg.k
      X  == XOR3(s.loc[0].x[1], s.loc[1].x[1], s.loc[2].x[1])
      R  == XOR3(s.loc[0].r[1], s.loc[1].r[1], s.loc[2].r[1])
      s1 == PrgWord(6, s.cursor[1].prss, k)
      s2 == PrgWord(7, s.cursor[2].prss, k)
  IN <<XOR3(ADD(X, R, k), s1, s2), s1, s2>>

add_bb(s) ==
  LET sh == AddBBShares(s)
  IN [s EXCEPT !.pc = [i \in Ranks |-> "ppa_reveal"],
               !.loc = [i \in Ranks |->
                          [x_plus_r |-> InShare(sh, i)] @@ s.loc[i]]]

(***************************************************************************)
(* eqz, EqualAA::proc and EqualAP::proc.                                   *)
(***************************************************************************)
\* EqualAA without the subtraction on the second slot
EqualAAOutFirstSlot(lhs, rhs, k) == <<SUB(lhs[1], rhs[1], k), lhs[2]>>

\* the argument EqualAA hands to eqz
EqualAAOut(lhs, rhs, k) == <<SUB(lhs[1], rhs[1], k), SUB(lhs[2], rhs[2], k)>>

\* EqualAP with the constant subtracted from the first slot of rank 0
EqualAPOutRank0(i, lhs, rhs, k) ==
  <<IF i = 0 THEN SUB(lhs[1], rhs, k) ELSE lhs[1], lhs[2]>>

\* the argument EqualAP hands to eqz, rhs the public constant
EqualAPOut(i, lhs, rhs, k) ==
  <<IF i = 1 THEN SUB(lhs[1], rhs, k) ELSE lhs[1],
    IF i = 0 THEN SUB(lhs[2], rhs, k) ELSE lhs[2]>>

\* what the equality kernel of the run passes to eqz
EqzIn(s, i) ==
  IF Kern(s, i) = "EqualAA"
    THEN EqualAAOut(s.loc[i].in, s.loc[i].rhs, cfg.k)
    ELSE EqualAPOut(i, s.loc[i].in, cfg.c, cfg.k)

\* the vector of the array's elements that holds the word w of the first
Vec(w) == IF cfg.numel = 0 THEN <<>> ELSE <<w>>

\* the first element of a vector, zero when it has none
Elem(val) == IF val = <<>> THEN Zero ELSE val[1]

\* the loop with the test cur_bits != 1 in the place of cur_bits != cur_numel
EqzLoopUntilOne(s, i, res0, res1, cur_bits, cur_bytes) ==
  IF cur_bits = 1 THEN Return(s, i, <<res0, res1>>)
  ELSE
    LET half  == IF cur_bytes = 1 THEN 1 ELSE cur_bytes \div 2
        split == cur_bytes /= 1
        l0 == IF split THEN Trunc(res0, 8 * half) ELSE SHR(res0, cur_bits \div 2)
        l1 == IF split THEN Trunc(res1, 8 * half) ELSE SHR(res1, cur_bits \div 2)
        r0 == IF split THEN SHR(res0, 8 * half) ELSE res0
        r1 == IF split THEN SHR(res1, 8 * half) ELSE res1
        c  == s.cursor[i].prss
        g0 == PrgWord(i, c, 8 * half)
        g1 == PrgWord(NextRank(i), c, 8 * half)
        z  == XOR(XOR(AND(l0, r0), AND(l0, r1)), XOR(AND(l1, r0), XOR(g0, g1)))
        s1 == DrawPrss(s, i, half, 8)
        s2 == SendAsync(s1, i, RotateTo(i), <<z>>, "andbb")
    IN SetPc(SetLoc(s2, i, [r0 |-> z, cur_bits |-> cur_bits \div 2,
                            cur_bytes |-> half]), i, "eqz_rot")

\* the loop of and-rounds, from its test to the recv of rotate "andbb"; the
\* words are those of the first element
EqzLoop(s, i, res0, res1, cur_bits, cur_bytes) ==
  IF cur_bits = cfg.numel
  THEN Return(s, i, IF cfg.numel = 0 THEN <<Zero, Zero>> ELSE <<res0, res1>>)
  ELSE
    LET half  == IF cur_bytes = cfg.numel THEN cfg.numel ELSE cur_bytes \div 2
        split == cur_bytes /= cfg.numel
        shift == cur_bits \div (cfg.numel * 2)
        l0 == IF split THEN Trunc(res0, 8 * half) ELSE SHR(res0, shift)
        l1 == IF split THEN Trunc(res1, 8 * half) ELSE SHR(res1, shift)
        r0 == IF split THEN SHR(res0, 8 * half) ELSE res0
        r1 == IF split THEN SHR(res1, 8 * half) ELSE res1
        c  == s.cursor[i].prss
        g0 == PrgWord(i, c, 8 * half)
        g1 == PrgWord(NextRank(i), c, 8 * half)
        z  == XOR(XOR(AND(l0, r0), AND(l0, r1)), XOR(AND(l1, r0), XOR(g0, g1)))
        s1 == DrawPrss(s, i, half, 8)
        s2 == SendAsync(s1, i, RotateTo(i), <<z>>, "andbb")
    IN SetPc(SetLoc(s2, i, [r0 |-> z, cur_bits |-> cur_bits \div 2,
                            cur_bytes |-> half]), i, "eqz_rot")

\* the flags with the second slot of the dealer in the place of the first
EqzFlagsSwapped(s, i, f0, f1) ==
  EqzLoop(SetLoc(s, i, [flag |-> IF i = RoleP0(cfg.pivot) THEN <<f1, f0>> ELSE <<f0, f1>>]),
          i, IF i = RoleP0(cfg.pivot) THEN f1 ELSE f0,
          IF i = RoleP0(cfg.pivot) THEN f0 ELSE f1,
          (cfg.k \div 8) * cfg.numel * 8, (cfg.k \div 8) * cfg.numel)

\* zero_flag_3pc_0 and zero_flag_3pc_1 are set (kept in flag): the loop starts
EqzFlags(s, i, f0, f1) ==
  EqzLoop(SetLoc(s, i, [flag |-> <<f0, f1>>]), i, f0, f1,
          (cfg.k \div 8) * cfg.numel * 8, (cfg.k \div 8) * cfg.numel)

EqzStart(s, i) ==
  LET k  == cfg.k
      sz == k \div 8
      in == EqzIn(s, i)
      s0 == DrawPubl(s, i, SizeTBits \div 8)
      c  == s.cursor[i].prss
      P0 == RoleP0(cfg.pivot)
      P1 == RoleP1(cfg.pivot)
      P2 == RoleP2(cfg.pivot)
  IN IF i = P0 THEN
       LET r         == PrgWord(3 + i, s.cursor[i].priv, k)
           r_arith_0 == PrssSecond(i, c, 1, k)[1]
           r_bool_0  == PrssSecond(i, c + sz, 1, k)[1]
           r_z       == PrssSecond(i, c + 2 * sz, 1, k)[1]
           r_arith_1 == SUB(r, r_arith_0, k)
           r_bool_1  == XOR(r, r_bool_0)
           s1 == DrawPrss(DrawPrss(DrawPriv(s0, i, sz * cfg.numel), i, cfg.numel, k), i, cfg.numel, k)
           s2 == SendAsync(s1, i, P2, Vec(r_arith_1), "r_arith")
           s3 == IF s2.pc[i] = "failed" THEN s2
                 ELSE SendAsync(s2, i, P2, Vec(r_bool_1), "r_bool")
       IN IF s3.pc[i] = "failed" THEN s3
          ELSE EqzFlags(SetLoc(DrawPrss(s3, i, cfg.numel, k), i, [r |-> r]), i,
                        r_bool_1, r_z)
     ELSE IF i = P1 THEN
       LET a_s     == ADD(in[1], in[2], k)
           r_arith == PrssFirst(i, c, 1, k)[1]
           r_bool  == PrssFirst(i, c + sz, 1, k)[1]
           s1 == DrawPrss(DrawPrss(s0, i, cfg.numel, k), i, cfg.numel, k)
       IN SetPc(SetLoc(s1, i, [a_s |-> a_s, c_s |-> ADD(r_arith, a_s, k),
                               r_bool |-> r_bool]),
                i, "eqz_recv_c_s")
     ELSE
       LET s1 == DrawPrss(DrawPrss(s0, i, cfg.numel, k), i, cfg.numel, k)
       IN SetPc(SetLoc(s1, i, [a_s |-> in[2]]), i, "eqz_recv_r_arith")

\* the rank party i waits for at its position, and the tag it asks for
EqzWait(s, i) ==
  CASE s.pc[i] = "eqz_recv_c_s" -> [from |-> RoleP2(cfg.pivot), tag |-> "c_s"]
    [] s.pc[i] = "eqz_recv_r_arith" -> [from |-> RoleP0(cfg.pivot), tag |-> "r_arith"]
    [] s.pc[i] = "eqz_recv_r_bool" -> [from |-> RoleP0(cfg.pivot), tag |-> "r_bool"]
    [] s.pc[i] = "eqz_recv_flag" -> [from |-> RoleP1(cfg.pivot), tag |-> "flag_split"]
    [] s.pc[i] = "eqz_rot" -> [from |-> RotateFrom(i), tag |-> "andbb"]

EqzRecv(s, i) ==
  LET k  == cfg.k
      sz == k \div 8
      w  == EqzWait(s, i)
      v  == Trunc(Elem(RecvVal(s, w.from, i)), k)
      s1 == Recv(s, w.from, i, w.tag)
      l  == s.loc[i]
      c  == s.cursor[i].prss
  IN CASE s.pc[i] = "eqz_recv_c_s" ->
            LET c_p == ADD(v, l.c_s, k)
                r_z == PrssFirst(i, c, 1, k)[1]
                zero_flag_2pc == XOR(NOTw(XOR(c_p, l.r_bool), k), r_z)
                s2 == SendAsync(DrawPrss(s1, i, cfg.numel, k), i, RoleP2(cfg.pivot),
                                Vec(zero_flag_2pc), "flag_split")
            IN IF s2.pc[i] = "failed" THEN s2
               ELSE EqzFlags(SetLoc(s2, i, [c_p |-> c_p]), i, r_z, zero_flag_2pc)
       [] s.pc[i] = "eqz_recv_r_arith" ->
            SetPc(SetLoc(s1, i, [r_arith |-> v]), i, "eqz_recv_r_bool")
       [] s.pc[i] = "eqz_recv_r_bool" ->
            LET c_s == ADD(l.r_arith, l.a_s, k)
                s2  == SendAsync(s1, i, RoleP1(cfg.pivot), Vec(c_s), "c_s")
            IN IF s2.pc[i] = "failed" THEN s2
               ELSE SetPc(SetLoc(DrawPrss(s2, i, cfg.numel, k), i, [r_bool |-> v]),
                          i, "eqz_recv_flag")
       [] s.pc[i] = "eqz_recv_flag" -> EqzFlags(s1, i, v, l.r_bool)
       [] s.pc[i] = "eqz_rot" ->
            EqzLoop(s1, i, l.r0, Trunc(v, 8 * l.cur_bytes), l.cur_bits, l.cur_bytes)

eqzReady(s, i) ==
  /\ Running(s, i)
  /\ Kern(s, i) \in {"EqualAA", "EqualAP"}
  /\ IF s.pc[i] = "start" THEN TRUE ELSE CanRecv(s, EqzWait(s, i).from, i)

eqzStep(s, i) == IF s.pc[i] = "start" THEN EqzStart(s, i) ELSE EqzRecv(s, i)

(***************************************************************************)
(* Boolean shares with their type: v the slots a party holds (one for ASS, *)
(* two for RSS, three for MSS), nbits the declared width and w the width   *)
(* of the back-storage type.  An ASS array has a second slot in memory     *)
(* that the kernels below never read after a gate left it unwritten.       *)
(***************************************************************************)
\* calcBShareBacktype with the bounds left out of the ranges
calcBShareBacktypeBelow(nbits) ==
  IF nbits < 8 THEN 8
  ELSE IF nbits < 16 THEN 16
  ELSE IF nbits < 32 THEN 32
  ELSE IF nbits < 64 THEN 64
  ELSE IF nbits < 128 THEN 128
  ELSE 0

\* the width of the type calcBShareBacktype(nbits) returns; 0 where it throws
calcBShareBacktype(nbits) ==
  IF nbits <= 8 THEN 8
  ELSE IF nbits <= 16 THEN 16
  ELSE IF nbits <= 32 THEN 32
  ELSE IF nbits <= 64 THEN 64
  ELSE IF nbits <= 128 THEN 128
  ELSE 0

\* SPU_ENFORCE(SizeOf(back_type) * 8 >= nbits) of the constructor of BShrTy
BShrTyEnforce(w, nbits) == w >= nbits

Shr(v, nbits) == [v |-> v, nbits |-> nbits, w |-> calcBShareBacktype(nbits)]

\* a store into an element of the share's back-storage type
Store(a, nbits) == Trunc(a, calcBShareBacktype(nbits))

\* kSwapMasks[k]: 0x2222.., 0x0C0C.., 0x00F0.., 0x0000FF00.., 0x..FFFF0000,
\* 0xFFFFFFFF00000000 of the low half
kSwapMasks ==
  [k \in 0 .. 5 |-> {b \in Bits(128) : ((b \div (2 ^ k)) % 4) = 1} \cup {}]

\* kKeepMasks[k]: 0x9999.., 0xC3C3.., 0xF00F.., 0xFF0000FF.., 0xFFFF00000000FFFF,
\* the top and the bottom 32 bits
kKeepMasks ==
  [k \in 0 .. 5 |-> {b \in Bits(128) : ((b \div (2 ^ k)) % 4) \in {0, 3}} \cup {}]

Log2Ceil(n) == CHOOSE e \in 0 .. 7 : 2 ^ e >= n /\ (e = 0 \/ 2 ^ (e - 1) < n)

\* one pass of the butterfly swap of bit_split_mss on a word of width w
SwapPass(r, k, w) ==
  LET keep  == kKeepMasks[k]
      move  == kSwapMasks[k]
      shift == 2 ^ k
  IN Trunc(XOR3(AND(r, keep), AND(SHR(r, shift), move),
                SHL(AND(r, move), shift, w)), w)

RECURSIVE SwapLoop(_, _, _, _)
SwapLoop(r, k, n, w) ==
  IF k + 1 < n THEN SwapLoop(SwapPass(r, k, w), k + 1, n, w) ELSE r

\* the halves of the gathered words r, each stored in the type of its width
SplitHalves(r, half) ==
  <<Shr(<<Store(AND(SHR(r[1], half), Bits(half)), half),
          Store(AND(SHR(r[2], half), Bits(half)), half),
          Store(AND(SHR(r[3], half), Bits(half)), half)>>, half),
    Shr(<<Store(AND(r[1], Bits(half)), half), Store(AND(r[2], Bits(half)), half),
          Store(AND(r[3], Bits(half)), half)>>, half)>>

\* bit_split_mss(in): the pair (hi, lo) of the odd and the even bits
bit_split_mss(in) ==
  SplitHalves(<<SwapLoop(in.v[1], 0, Log2Ceil(in.nbits), in.w),
                SwapLoop(in.v[2], 0, Log2Ceil(in.nbits), in.w),
                SwapLoop(in.v[3], 0, Log2Ceil(in.nbits), in.w)>>, in.nbits \div 2)

MinNbits(l, r) == IF l.nbits < r.nbits THEN l.nbits ELSE r.nbits

AssXor2(l, r) ==
  LET n == MinNbits(l, r) IN Shr(<<Store(XOR(l.v[1], r.v[1]), n)>>, n)

RssXor2(l, r) ==
  LET n == MinNbits(l, r)
  IN Shr(<<Store(XOR(l.v[1], r.v[1]), n), Store(XOR(l.v[2], r.v[2]), n)>>, n)

MssXor2(l, r) ==
  LET n == MinNbits(l, r)
  IN Shr(<<Store(XOR(l.v[1], r.v[1]), n), Store(XOR(l.v[2], r.v[2]), n),
           Store(XOR(l.v[3], r.v[3]), n)>>, n)

\* the masks r0, r1 are drawn and then filled with zero
RssAnd2NoComm(l, r) ==
  LET n  == MinNbits(l, r)
      r0 == Zero
      r1 == Zero
  IN Shr(<<Store(XOR(XOR3(AND(l.v[1], r.v[1]), AND(l.v[1], r.v[2]),
                          AND(l.v[2], r.v[1])), XOR(r0, r1)), n)>>, n)

MssAnd2NoComm(l, r) ==
  LET n  == MinNbits(l, r)
      r0 == Zero
      r1 == Zero
  IN Shr(<<Store(XOR(XOR3(AND(l.v[1], r.v[1]), AND(l.v[1], r.v[2]),
                          AND(l.v[2], r.v[1])), r0), n),
           Store(XOR(XOR3(AND(l.v[1], r.v[1]), AND(l.v[1], r.v[3]),
                          AND(l.v[3], r.v[1])), r1), n)>>, n)

\* the downgrade with the mask left out of the first slot
ResharingMss2RssNoMask(in) ==
  Shr(<<Store(in.v[1], in.nbits), Store(XOR(in.v[1], in.v[3]), in.nbits)>>, in.nbits)

ResharingMss2Rss(in) ==
  Shr(<<Store(XOR(in.v[1], in.v[2]), in.nbits),
        Store(XOR(in.v[1], in.v[3]), in.nbits)>>, in.nbits)

\* the split that takes the second slot of each party
ResharingRss2AssSecondSlot(in) == Shr(<<Store(in.v[2], in.nbits)>>, in.nbits)

ResharingRss2Ass(in) == Shr(<<Store(in.v[1], in.nbits)>>, in.nbits)

MssAnd3NoComm(op1, op2, op3) ==
  RssAnd2NoComm(MssAnd2NoComm(op1, op2), ResharingMss2Rss(op3))

MssAnd4NoComm(op1, op2, op3, op4) ==
  RssAnd2NoComm(MssAnd2NoComm(op1, op2), MssAnd2NoComm(op3, op4))

\* uint64_t helpers: the argument is converted to 64 bits
lshift(x, shift) == SHL(Trunc(x, 64), shift, 64)

rshift(x, shift) == SHR(Trunc(x, 64), shift)

select(x, mask, offset, idx) ==
  SHL(AND(Trunc(x, 64), SHL(mask, idx * offset, 64)), (3 - idx) * offset, 64)

SelectAndRotate(x, mask, stride) == SHL(AND(Trunc(x, 64), mask), stride, 64)

\* 1 << n of type int, less one, as a mask of a word of width w; for n >= 32
\* the shift is undefined: the count wraps modulo 32 or the result is 0
IntMask(n, w) ==
  IF n < 32 THEN Bits(n)
  ELSE IF cfg.ub = "wrap" THEN Bits(n % 32) ELSE Bits(w)

\* 1ull << n; for n >= 64 the count wraps modulo 64 or the result is 0
UllBit(n) == IF n < 64 THEN {n} ELSE IF cfg.ub = "wrap" THEN {n % 64} ELSE {}

\* (1ull << n) - 1
UllMask(n) ==
  IF n < 64 THEN Bits(n) ELSE IF cfg.ub = "wrap" THEN Bits(n % 64) ELSE Bits(64)

pack_2_bitvec_ass(lo, hi) ==
  LET n == lo.nbits + hi.nbits
  IN Shr(<<Store(OR(lo.v[1], SHL(hi.v[1], lo.nbits, calcBShareBacktype(n))), n)>>, n)

\* the low and the high half of one slot of a packed share
UnpackLo(x, in) ==
  Store(AND(x, IntMask(in.nbits \div 2, in.w)), in.nbits \div 2)

UnpackHi(x, in) ==
  LET lo_nbits == in.nbits \div 2
      hi_nbits == in.nbits - lo_nbits
  IN Store(AND(SHR(x, lo_nbits), IntMask(hi_nbits, in.w)), hi_nbits)

\* unpack_2_bitvec_rss(in): the pair (hi, lo)
unpack_2_bitvec_rss(in) ==
  <<Shr(<<UnpackHi(in.v[1], in), UnpackHi(in.v[2], in)>>, in.nbits - in.nbits \div 2),
    Shr(<<UnpackLo(in.v[1], in), UnpackLo(in.v[2], in)>>, in.nbits \div 2)>>

\* unpack_2_bitvec_mss(in): the pair (hi, lo)
unpack_2_bitvec_mss(in) ==
  <<Shr(<<UnpackHi(in.v[1], in), UnpackHi(in.v[2], in), UnpackHi(in.v[3], in)>>,
        in.nbits - in.nbits \div 2),
    Shr(<<UnpackLo(in.v[1], in), UnpackLo(in.v[2], in), UnpackLo(in.v[3], in)>>,
        in.nbits \div 2)>>

\* unpack_2_bitvec_ass(in): the pair (hi, lo) of the first slot
unpack_2_bitvec_ass(in) ==
  <<Shr(<<UnpackHi(in.v[1], in)>>, in.nbits - in.nbits \div 2),
    Shr(<<UnpackLo(in.v[1], in)>>, in.nbits \div 2)>>

\* one slot of a packed share: l | (out_el_t(h) << lo_nbits), stored
PackSlot(l, h, nbits, n) == Store(OR(l, SHL(h, nbits, calcBShareBacktype(n))), n)

pack_2_bitvec_rss(lo, hi) ==
  LET n == lo.nbits + hi.nbits
  IN Shr(<<PackSlot(lo.v[1], hi.v[1], lo.nbits, n),
           PackSlot(lo.v[2], hi.v[2], lo.nbits, n)>>, n)

pack_2_bitvec_mss(lo, hi) ==
  LET n == lo.nbits + hi.nbits
  IN Shr(<<PackSlot(lo.v[1], hi.v[1], lo.nbits, n),
           PackSlot(lo.v[2], hi.v[2], lo.nbits, n),
           PackSlot(lo.v[3], hi.v[3], lo.nbits, n)>>, n)

\* the constant S = 0x5555555555555555 of bit_split and its complement
PextS == {b \in Bits(64) : b % 2 = 0} \cup {}

PextNotS == Bits(64) \ PextS

\* yacl::pext_u64(x, m): x is converted to 64 bits; the bits of x at the
\* positions of m, gathered at the low end in their order
pext_u64(x, m) ==
  {Cardinality({c \in m : c < b}) : b \in (Trunc(x, 64) \cap m)} \cup {}

\* (out_el_t(1) << n) - 1 for the type of width w: a type below int is
\* promoted; a shift by the width of the type is undefined, the count
\* wraps or the result is 0
ElMask(n, w) ==
  IF w < 32 \/ n < w THEN Bits(n)
  ELSE IF cfg.ub = "wrap" THEN Bits(n % w) ELSE Bits(w)

\* the even or the odd bits of one slot of bit_split, M the mask of the half
PextSlot(x, m, half) ==
  Store(AND(pext_u64(x, m), ElMask(half, calcBShareBacktype(half))), half)

\* the two halves of one slot of the branch of bit_split for elements wider
\* than 8 bytes
SwapSlotLo(x, in) ==
  Store(AND(SwapLoop(x, 0, Log2Ceil(in.nbits), in.w), Bits(in.nbits \div 2)),
        in.nbits \div 2)

SwapSlotHi(x, in) ==
  Store(AND(SHR(SwapLoop(x, 0, Log2Ceil(in.nbits), in.w), in.nbits \div 2),
            Bits(in.nbits \div 2)), in.nbits \div 2)

\* bit_split(in): the pair (hi, lo) of a share of two slots
bit_split(in) ==
  LET half == in.nbits \div 2
  IN IF calcBShareBacktype(half) <= 64
     THEN <<Shr(<<PextSlot(in.v[1], PextNotS, half),
                  PextSlot(in.v[2], PextNotS, half)>>, half),
            Shr(<<PextSlot(in.v[1], PextS, half),
                  PextSlot(in.v[2], PextS, half)>>, half)>>
     ELSE <<Shr(<<SwapSlotHi(in.v[1], in), SwapSlotHi(in.v[2], in)>>, half),
            Shr(<<SwapSlotLo(in.v[1], in), SwapSlotLo(in.v[2], in)>>, half)>>

\* SPU_ENFORCE(in_nbits != 0 && in_nbits % 2 == 0) of both bit splits
SplitNbits(nbits) == nbits /= 0 /\ nbits % 2 = 0

(***************************************************************************)
(* The resharing operators that communicate.  The caller's continuation    *)
(* is kept in loc[i].cont while the party is blocked in rotate / rotateR.  *)
(***************************************************************************)
\* ResharingRss2Mss up to its rotateR
ResharingRss2MssStart(s, i, in, cont) ==
  LET r0 == Zero
      r1 == Zero
      s1 == DrawPrss(s, i, 1, in.w)
      s2 == SendAsync(s1, i, RotateRTo(i), <<Store(XOR(in.v[1], r0), in.nbits)>>,
                      "Resharing RSS to MSS, online")
  IN SetPc(SetLoc(s2, i, [rs |-> [in |-> in, o1 |-> r0, o2 |-> r1], cont |-> cont]),
           i, "r2m")

\* ResharingAss2Rss that rotates a buffer of zeros
ResharingAss2RssStartSendsZero(s, i, in, cont) ==
  LET r0 == Zero
      r1 == Zero
      o0 == Store(XOR3(in.v[1], r0, r1), in.nbits)
      s1 == DrawPrss(s, i, 1, in.w)
      s2 == SendAsync(s1, i, RotateTo(i), <<Zero>>, "Resharing ASS to RSS, online")
  IN SetPc(SetLoc(s2, i, [rs |-> [in |-> in, o0 |-> o0], cont |-> cont]), i, "a2r")

\* ResharingAss2Rss up to its rotate
ResharingAss2RssStart(s, i, in, cont) ==
  LET r0 == Zero
      r1 == Zero
      o0 == Store(XOR3(in.v[1], r0, r1), in.nbits)
      s1 == DrawPrss(s, i, 1, in.w)
      s2 == SendAsync(s1, i, RotateTo(i), <<o0>>, "Resharing ASS to RSS, online")
  IN SetPc(SetLoc(s2, i, [rs |-> [in |-> in, o0 |-> o0], cont |-> cont]), i, "a2r")

\* ResharingAss2Mss up to its rotateR
ResharingAss2MssStart(s, i, in, cont) ==
  LET r0 == Zero
      r1 == Zero
      s1 == DrawPrss(s, i, 1, in.w)
      s2 == SendAsync(s1, i, RotateRTo(i), <<Store(XOR(in.v[1], r0), in.nbits)>>,
                      "Resharing ASS to MSS, online, message 1")
  IN SetPc(SetLoc(s2, i, [rs |-> [in |-> in, o1 |-> r0, o2 |-> r1], cont |-> cont]),
           i, "a2m_m1")

\* ResharingAss2Mss from the end of its rotateR up to its rotate
ResharingAss2MssRotate(s, i) ==
  LET l  == s.loc[i]
      r0 == RecvVal(s, RotateRFrom(i), i)[1]
      s1 == Recv(s, RotateRFrom(i), i, "Resharing ASS to MSS, online, message 1")
      s2 == SendAsync(s1, i, RotateTo(i), <<l.rs.in.v[1]>>,
                      "Resharing ASS to MSS, online, message 2")
  IN SetPc(SetLoc(s2, i, [rs |-> [r0 |-> r0] @@ l.rs]), i, "a2m_m2")

\* the resharings with the second input slot left out of D in RSS to MSS
ResharingOutOneSlot(s, i) ==
  LET l  == s.loc[i]
      in == l.rs.in
  IN CASE s.pc[i] = "r2m" ->
            Shr(<<Store(XOR(in.v[1],
                            XOR3(l.rs.o1, l.rs.o2, RecvVal(s, RotateRFrom(i), i)[1])),
                        in.nbits), l.rs.o1, l.rs.o2>>, in.nbits)
       [] s.pc[i] = "a2r" ->
            Shr(<<l.rs.o0, Store(RecvVal(s, RotateFrom(i), i)[1], in.nbits)>>, in.nbits)
       [] s.pc[i] = "a2m_m2" ->
            Shr(<<Store(XOR(XOR3(in.v[1], l.rs.o1, l.rs.o2),
                            XOR(l.rs.r0, RecvVal(s, RotateFrom(i), i)[1])), in.nbits),
                  l.rs.o1, l.rs.o2>>, in.nbits)

\* the share a resharing returns once its last message has come
ResharingOut(s, i) ==
  LET l  == s.loc[i]
      in == l.rs.in
  IN CASE s.pc[i] = "r2m" ->
            Shr(<<Store(XOR(XOR(in.v[1], in.v[2]),
                            XOR3(l.rs.o1, l.rs.o2, RecvVal(s, RotateRFrom(i), i)[1])),
                        in.nbits), l.rs.o1, l.rs.o2>>, in.nbits)
       [] s.pc[i] = "a2r" ->
            Shr(<<l.rs.o0, Store(RecvVal(s, RotateFrom(i), i)[1], in.nbits)>>, in.nbits)
       [] s.pc[i] = "a2m_m2" ->
            Shr(<<Store(XOR(XOR3(in.v[1], l.rs.o1, l.rs.o2),
                            XOR(l.rs.r0, RecvVal(s, RotateFrom(i), i)[1])), in.nbits),
                  l.rs.o1, l.rs.o2>>, in.nbits)

\* the rank a party blocked in a resharing waits for, and the tag it asks for
ResharingFrom(s, i) ==
  IF s.pc[i] \in {"r2m", "a2m_m1"} THEN RotateRFrom(i) ELSE RotateFrom(i)

ResharingTag(s, i) ==
  CASE s.pc[i] = "r2m" -> "Resharing RSS to MSS, online"
    [] s.pc[i] = "a2r" -> "Resharing ASS to RSS, online"
    [] s.pc[i] = "a2m_m1" -> "Resharing ASS to MSS, online, message 1"
    [] s.pc[i] = "a2m_m2" -> "Resharing ASS to MSS, online, message 2"

(***************************************************************************)
(* MsbA2BMultiFanIn and the first round it shares with A2BMultiFanIn.      *)
(***************************************************************************)
\* bcast(buf, root, tag) at the root: the buffer goes to the other two ranks
bcast(s, root, buf, tag) ==
  SendAsync(SendAsync(s, root, NextRank(root), buf, tag),
            root, PrevRank(root), buf, tag)

\* the rank that builds m; the rank after it builds n
start_rank == 0

start_rank_next == (start_rank + 1) % 3

\* the first round after bcast has returned r0: rank start_rank waits for
\* Dn, rank start_rank_next sends it; pc "msb_sig" marks the round as done
SpecialResharingEnd(s, i, r0) ==
  LET l == s.loc[i]
  IN IF i = start_rank THEN SetPc(s, i, "msb_dn")
     ELSE LET s1 == IF i = start_rank_next
                    THEN SendAsync(s, i, start_rank, <<l.r1>>,
                           "MsbA2B, special resharing from ASS to MSS, send dn2")
                    ELSE s
          IN SetPc(SetLoc(s1, i, [m |-> [l.m EXCEPT ![1] = r0]]), i, "msb_sig")

\* the first round with m built as the XOR of the two shares
SpecialResharingStartXor(s, i) ==
  LET in == In(s, i)
      k  == cfg.k
      r0 == Zero
      r1 == Zero
      s1 == DrawPrss(s, i, 1, k)
      Dm == XOR(r1, XOR(r0, XOR(in[1], in[2])))
      Dn == XOR(r1, in[2])
      s2 == IF i = start_rank
            THEN SetLoc(s1, i, [m |-> <<Dm, r0, r1>>, n |-> <<Zero, Zero, Zero>>,
                                r1 |-> Dm])
            ELSE IF i = start_rank_next
            THEN SetLoc(s1, i, [m |-> <<Zero, r0, Zero>>, n |-> <<Dn, Zero, r1>>,
                                r1 |-> Dn])
            ELSE SetLoc(s1, i, [m |-> <<Zero, Zero, r1>>,
                                n |-> <<XOR(in[1], r0), r0, Zero>>, r1 |-> r1])
  IN IF i = 0
     THEN SpecialResharingEnd(
            bcast(s2, 0, <<Dm>>,
                  "MsbA2B, special resharing from ASS to MSS, broadcast Dm"),
            i, Dm)
     ELSE SetPc(s2, i, "msb_bcast")

\* the conversion of the A/RSS input into the operands m and n, up to the
\* first blocking call of the party
SpecialResharingStart(s, i) ==
  LET in == In(s, i)
      k  == cfg.k
      r0 == Zero
      r1 == Zero
      s1 == DrawPrss(s, i, 1, k)
      Dm == XOR(r1, XOR(r0, ADD(in[1], in[2], k)))
      Dn == XOR(r1, in[2])
      s2 == IF i = start_rank
            THEN SetLoc(s1, i, [m |-> <<Dm, r0, r1>>, n |-> <<Zero, Zero, Zero>>,
                                r1 |-> Dm])
            ELSE IF i = start_rank_next
            THEN SetLoc(s1, i, [m |-> <<Zero, r0, Zero>>, n |-> <<Dn, Zero, r1>>,
                                r1 |-> Dn])
            ELSE SetLoc(s1, i, [m |-> <<Zero, Zero, r1>>,
                                n |-> <<XOR(in[1], r0), r0, Zero>>, r1 |-> r1])
  IN IF i = 0
     THEN SpecialResharingEnd(
            bcast(s2, 0, <<Dm>>,
                  "MsbA2B, special resharing from ASS to MSS, broadcast Dm"),
            i, Dm)
     ELSE SetPc(s2, i, "msb_bcast")

\* the rank and the tag of the recv a party of the first round is blocked in
SpecialResharingFrom(s, i) ==
  IF s.pc[i] = "msb_dn" THEN start_rank_next ELSE 0

SpecialResharingTag(s, i) ==
  IF s.pc[i] = "msb_dn"
  THEN "MsbA2B, special resharing from ASS to MSS, get dn2"
  ELSE "MsbA2B, special resharing from ASS to MSS, broadcast Dm"

\* the first round from the recv the party was blocked in
SpecialResharingRecv(s, i) ==
  LET l  == s.loc[i]
      r0 == RecvVal(s, SpecialResharingFrom(s, i), i)[1]
      s1 == Recv(s, SpecialResharingFrom(s, i), i, SpecialResharingTag(s, i))
  IN IF s.pc[i] = "msb_dn"
     THEN SetPc(SetLoc(s1, i, [n |-> [l.n EXCEPT ![1] = r0]]), i, "msb_sig")
     ELSE SpecialResharingEnd(s1, i, r0)

\* once the first round is over: the generate signal g = m & n, up to the
\* rotateR of its resharing
Signals(s, i, cont) ==
  IF s.pc[i] /= "msb_sig" THEN s
  ELSE ResharingAss2MssStart(
         DrawPrss(s, i, 1, cfg.k), i,
         ResharingRss2Ass(MssAnd2NoComm(Shr(s.loc[i].m, cfg.k), Shr(s.loc[i].n, cfg.k))),
         cont)

\* the propagate signal p = m ^ n
Propagate(l) == <<XOR(l.m[1], l.n[1]), XOR(l.m[2], l.n[2]), XOR(l.m[3], l.n[3])>>

\* the cells a party has invoked, each with the names of the calls it made
CallsOf(l) == IF "calls" \in DOMAIN l THEN l.calls ELSE <<>>

\* party i invokes the cell, which makes the calls named
CallCell(s, i, cell, names) ==
  SetLoc(s, i, [calls |-> Append(CallsOf(s.loc[i]), [cell |-> cell, names |-> names])])

\* the cell party i is in goes on with the calls named
CallMore(s, i, names) ==
  SetLoc(s, i, [calls |-> [s.loc[i].calls EXCEPT ![Len(s.loc[i].calls)].names = @ \o names]])

Count(names, name) == Cardinality({j \in DOMAIN names : names[j] = name})

\* the AND gates counted without those on RSS operands
AndGatesMssOnly(names) == Count(names, "MssAnd2NoComm")

\* each AND gate calls fillPrssPair once
AndGates(names) == Count(names, "MssAnd2NoComm") + Count(names, "RssAnd2NoComm")

\* the calls of one pass of the loop of MsbA2BMultiFanIn before its resharing:
\* the splits, p_res, g_res_3, g_res_2, g_res_1, g_res_0 and g_combined
MsbCalls ==
  <<"bit_split_mss", "bit_split_mss", "bit_split_mss",
    "bit_split_mss", "bit_split_mss", "bit_split_mss",
    "MssAnd2NoComm", "MssAnd2NoComm", "RssAnd2NoComm",
    "ResharingMss2Rss", "ResharingRss2Ass",
    "MssAnd2NoComm", "ResharingRss2Ass",
    "MssAnd2NoComm", "ResharingMss2Rss", "RssAnd2NoComm",
    "MssAnd2NoComm", "MssAnd2NoComm", "RssAnd2NoComm",
    "AssXor2", "AssXor2", "AssXor2">>

\* the operands of a cell in the order of the loop of MsbA2BMultiFanIn
MsbOperands(hi, lo) == <<lo[2], hi[2], lo[1], hi[1]>>

\* the four operands of a signal: bit_split_mss of its two halves
MsbSplit(hl) == MsbOperands(bit_split_mss(hl[1]), bit_split_mss(hl[2]))

\* the gates of one pass: p_res and g_combined, packed
MsbCell(pops, gops) ==
  LET p_res   == MssAnd4NoComm(pops[1], pops[2], pops[3], pops[4])
      g_res_3 == ResharingRss2Ass(ResharingMss2Rss(gops[4]))
      g_res_2 == ResharingRss2Ass(MssAnd2NoComm(gops[3], pops[4]))
      g_res_1 == MssAnd3NoComm(gops[2], pops[4], pops[3])
      g_res_0 == MssAnd4NoComm(gops[1], pops[4], pops[3], pops[2])
      g_combined == AssXor2(AssXor2(g_res_0, g_res_1), AssXor2(g_res_2, g_res_3))
  IN pack_2_bitvec_ass(p_res, g_combined)

\* the resharing that ends a pass: to MSS for another pass, to RSS for the last
MsbReshare(s, i, k, pg) ==
  IF k > 1
  THEN ResharingAss2MssStart(CallMore(s, i, <<"pack_2_bitvec_ass", "ResharingAss2Mss">>),
                             i, pg, "msb_loop")
  ELSE ResharingAss2RssStart(CallMore(s, i, <<"pack_2_bitvec_ass", "ResharingAss2Rss">>),
                             i, pg, "msb_last")

\* one pass of the loop (k > 1), up to the first rotate of its resharing
MsbLoop(s, i, p, g, k, res) ==
  MsbReshare(SetLoc(DrawPrss(CallCell(s, i, "MsbA2BMultiFanIn", MsbCalls), i,
                             AndGates(MsbCalls),
                             calcBShareBacktype((p.nbits \div 2) \div 2)),
                    i, [k |-> k \div 4, res |-> res]),
             i, k \div 4,
             MsbCell(MsbSplit(bit_split_mss(p)), MsbSplit(bit_split_mss(g))))

\* the two bytes of the first element of g seen as std::array<uint8_t, 2>
ByteView(g) ==
  IF g.w = 8 THEN <<g.v[1], g.v[2]>>
  ELSE <<Trunc(g.v[1], 8), SHR(Trunc(g.v[1], 16), 8)>>

\* the type the result array is made with: BShrTy of the ring's storage
\* type and of SizeOf(field) * 8 bits
rss_bshr_type(k) == [nbits |-> k, w |-> k]

\* the result with g left out of the second slot
MsbOutFirstSlot(s, i, g, res) ==
  Return(SetLoc(s, i, [out_type |-> rss_bshr_type(cfg.k)]), i,
         <<XOR(res[1], ByteView(g)[1]), res[2]>>)

\* the result: out ^= g, returned with the type it was made with
MsbOut(s, i, g, res) ==
  Return(SetLoc(s, i, [out_type |-> rss_bshr_type(cfg.k)]), i,
         <<XOR(res[1], ByteView(g)[1]), XOR(res[2], ByteView(g)[2])>>)

\* MsbA2BMultiFanIn from the signals p and g to the first pass of the loop
MsbPPA(s, i, sig_g_mss) ==
  LET l     == s.loc[i]
      nbits == cfg.k - 1
      p     == Propagate(l)
      g     == sig_g_mss.v
      res   == <<Trunc(SHR(XOR(p[1], p[2]), nbits), cfg.k),
                 Trunc(SHR(XOR(p[1], p[3]), nbits), cfg.k)>>
      p1    == <<Trunc(OR(UllBit(nbits), p[1]), cfg.k), AND(p[2], UllMask(nbits)),
                 AND(p[3], UllMask(nbits))>>
      g1    == <<AND(g[1], UllMask(nbits)), AND(g[2], UllMask(nbits)),
                 AND(g[3], UllMask(nbits))>>
  IN IF nbits > 1 THEN MsbLoop(s, i, Shr(p1, cfg.k), Shr(g1, cfg.k), nbits, res)
     ELSE MsbOut(s, i, Shr(g1, cfg.k), res)

(***************************************************************************)
(* A2BMultiFanIn: the carry network on 64-bit lanes.                       *)
(***************************************************************************)
\* 0x1111111111111111, 0x8888888888888888 and 0x7777777777777777
Mask1111 == {b \in Bits(64) : b % 4 = 0} \cup {}

Mask8888 == {b \in Bits(64) : b % 4 = 3} \cup {}

Mask7777 == {b \in Bits(64) : b % 4 /= 3} \cup {}

bit_mask == <<Mask1111, Mask8888, Mask8888>>

bit_offset == <<1, 4, 16>>

\* the word each slot of an MSS share is mapped to, stored in the ring's type
MapMss(x, F(_)) ==
  Shr(<<Trunc(F(x.v[1]), cfg.k), Trunc(F(x.v[2]), cfg.k), Trunc(F(x.v[3]), cfg.k)>>,
      cfg.k)

\* the first layer with g0 AND p0 in the place of g0 AND p1
CellGatesG0P0(pops, gops) ==
  [p3_rss   |-> ResharingMss2Rss(pops[4]),
   p2_rss   |-> ResharingMss2Rss(pops[3]),
   g2_rss   |-> ResharingMss2Rss(gops[3]),
   g1_rss   |-> ResharingMss2Rss(gops[2]),
   p01_rss  |-> MssAnd2NoComm(pops[1], pops[2]),
   p23_rss  |-> MssAnd2NoComm(pops[3], pops[4]),
   g0p1_rss |-> MssAnd2NoComm(gops[1], pops[1]),
   g3_ass   |-> ResharingRss2Ass(ResharingMss2Rss(gops[4])),
   gr0_ass  |-> ResharingRss2Ass(ResharingMss2Rss(gops[1])),
   pr0_ass  |-> ResharingRss2Ass(ResharingMss2Rss(pops[1]))]

\* the local resharings and the first layer of AND gates of the two cells
\* (PGCell_4FanIn1Out makes no p2_rss, gr0_ass and pr0_ass and uses none)
CellGates(pops, gops) ==
  [p3_rss   |-> ResharingMss2Rss(pops[4]),
   p2_rss   |-> ResharingMss2Rss(pops[3]),
   g2_rss   |-> ResharingMss2Rss(gops[3]),
   g1_rss   |-> ResharingMss2Rss(gops[2]),
   p01_rss  |-> MssAnd2NoComm(pops[1], pops[2]),
   p23_rss  |-> MssAnd2NoComm(pops[3], pops[4]),
   g0p1_rss |-> MssAnd2NoComm(gops[1], pops[2]),
   g3_ass   |-> ResharingRss2Ass(ResharingMss2Rss(gops[4])),
   gr0_ass  |-> ResharingRss2Ass(ResharingMss2Rss(gops[1])),
   pr0_ass  |-> ResharingRss2Ass(ResharingMss2Rss(pops[1]))]

RECURSIVE XorAll(_)
XorAll(ws) == IF ws = <<>> THEN {} ELSE XOR(Head(ws), XorAll(Tail(ws)))

\* a ^= the words ws, on the first slot of the ASS value a
XorInto(a, ws) == Shr(<<Trunc(XOR(a.v[1], XorAll(ws)), a.w)>>, a.nbits)

\* the gates of PGCell_4FanIn4Out on those the two cells have in common
Cell4Out(c) ==
  LET p0123_ass  == RssAnd2NoComm(c.p01_rss, c.p23_rss)
      p012_ass   == RssAnd2NoComm(c.p01_rss, c.p2_rss)
      g2p3_ass   == RssAnd2NoComm(c.g2_rss, c.p3_rss)
      g1p23_ass  == RssAnd2NoComm(c.g1_rss, c.p23_rss)
      g0p123_ass == RssAnd2NoComm(c.g0p1_rss, c.p23_rss)
      g1p2_ass   == RssAnd2NoComm(c.g1_rss, c.p2_rss)
      g0p12_ass  == RssAnd2NoComm(c.g0p1_rss, c.p2_rss)
      gr3_ass  == AssXor2(g2p3_ass, AssXor2(g1p23_ass, g0p123_ass))
      gr2_ass  == AssXor2(g1p2_ass, g0p12_ass)
      gr1_ass  == ResharingRss2Ass(c.g0p1_rss)
      pr1_ass  == ResharingRss2Ass(c.p01_rss)
      g2_ass   == ResharingRss2Ass(c.g2_rss)
      g1_ass   == ResharingRss2Ass(c.g1_rss)
  IN <<XorInto(gr3_ass, <<rshift(gr2_ass.v[1], 1), rshift(gr1_ass.v[1], 2),
                          rshift(c.gr0_ass.v[1], 3), c.g3_ass.v[1],
                          rshift(g2_ass.v[1], 1), rshift(g1_ass.v[1], 2)>>),
       XorInto(p0123_ass, <<rshift(p012_ass.v[1], 1), rshift(pr1_ass.v[1], 2),
                            rshift(c.pr0_ass.v[1], 3)>>)>>

\* PGCell_4FanIn4Out up to its resharings: the pair (gr3_ass, pr3_ass)
PGCell_4FanIn4Out(pops, gops) == Cell4Out(CellGates(pops, gops))

\* the gates of PGCell_4FanIn1Out on those the two cells have in common
Cell1Out(c) ==
  <<AssXor2(AssXor2(c.g3_ass, RssAnd2NoComm(c.g2_rss, c.p3_rss)),
            AssXor2(RssAnd2NoComm(c.g1_rss, c.p23_rss),
                    RssAnd2NoComm(c.g0p1_rss, c.p23_rss))),
    RssAnd2NoComm(c.p01_rss, c.p23_rss)>>

\* PGCell_4FanIn1Out up to its resharings: the pair (gr3_ass, pr3_ass)
PGCell_4FanIn1Out(pops, gops) == Cell1Out(CellGates(pops, gops))

\* the calls of PGCell_4FanIn4Out before its resharings: the downgrades, the
\* AND gates, gr3_ass, gr2_ass, gr1_ass, gr0_ass, pr1_ass, pr0_ass, g3_ass,
\* g2_ass and g1_ass
Calls4Out ==
  <<"ResharingMss2Rss", "ResharingMss2Rss", "ResharingMss2Rss", "ResharingMss2Rss",
    "MssAnd2NoComm", "MssAnd2NoComm", "MssAnd2NoComm",
    "RssAnd2NoComm", "RssAnd2NoComm", "RssAnd2NoComm", "RssAnd2NoComm",
    "RssAnd2NoComm", "RssAnd2NoComm", "RssAnd2NoComm",
    "AssXor2", "AssXor2", "AssXor2",
    "ResharingRss2Ass",
    "ResharingMss2Rss", "ResharingRss2Ass",
    "ResharingRss2Ass",
    "ResharingMss2Rss", "ResharingRss2Ass",
    "ResharingMss2Rss", "ResharingRss2Ass",
    "ResharingRss2Ass", "ResharingRss2Ass">>

\* the calls of PGCell_4FanIn1Out before its resharings: the downgrades, the
\* AND gates, g3_ass and gr3_ass
Calls1Out ==
  <<"ResharingMss2Rss", "ResharingMss2Rss", "ResharingMss2Rss",
    "MssAnd2NoComm", "MssAnd2NoComm", "MssAnd2NoComm",
    "RssAnd2NoComm", "RssAnd2NoComm", "RssAnd2NoComm", "RssAnd2NoComm",
    "ResharingMss2Rss", "ResharingRss2Ass",
    "AssXor2", "AssXor2", "AssXor2">>

CellCalls(lev) == IF lev = 0 THEN Calls4Out ELSE Calls1Out

CellName(lev) == IF lev = 0 THEN "PGCell_4FanIn4Out" ELSE "PGCell_4FanIn1Out"

\* the operands of the cell of level lev (0, 1 or 2) taken from the signal x
CellOps(x, lev) ==
  LET Op(j) ==
        IF lev = 0
        THEN MapMss(x, LAMBDA v : select(v, bit_mask[1], bit_offset[1], j))
        ELSE MapMss(x, LAMBDA v : SelectAndRotate(v, bit_mask[lev + 1],
                                                  bit_offset[lev + 1] * (3 - j)))
  IN <<Op(0), Op(1), Op(2), Op(3)>>

\* the resharing of gr3_ass starts; pr3_ass waits for its turn
A2BCellStart(s, i, cell) ==
  ResharingAss2MssStart(CallMore(SetLoc(s, i, [pr3 |-> cell[2]]), i,
                                 <<"ResharingAss2Mss">>),
                        i, cell[1], "a2b_g")

\* level lev up to the rotateR of the resharing of gr3_ass
A2BLevel(s, i, p, g, lev) ==
  A2BCellStart(SetLoc(DrawPrss(CallCell(s, i, CellName(lev), CellCalls(lev)), i,
                               AndGates(CellCalls(lev)), cfg.k),
                      i, [p |-> p, g |-> g, lev |-> lev]),
               i,
               IF lev = 0 THEN PGCell_4FanIn4Out(CellOps(p, lev), CellOps(g, lev))
               ELSE PGCell_4FanIn1Out(CellOps(p, lev), CellOps(g, lev)))

\* level 3 and the result: out ^= lshift(c, 1)
A2BLast(s, i, p, g) ==
  LET l     == s.loc[i]
      gops0 == MapMss(g, LAMBDA v : XOR3(SelectAndRotate(v, Mask8888, 1),
                                         SelectAndRotate(v, Mask8888, 2),
                                         SelectAndRotate(v, Mask8888, 3)))
      gops1 == g
      pops  == MapMss(p, LAMBDA v : SelectAndRotate(v, Mask7777, 0))
      c     == RssXor2(ResharingMss2Rss(gops1), MssAnd2NoComm(gops0, pops))
      s1    == DrawPrss(s, i, 1, cfg.k)
  IN Return(s1, i, <<Trunc(XOR(l.res[1], lshift(c.v[1], 1)), cfg.k),
                     Trunc(XOR(l.res[2], lshift(c.v[2], 1)), cfg.k)>>)

\* A2BMultiFanIn from the signals p and g to the cell of level 0
A2BPPA(s, i, sig_g_mss) ==
  LET p   == Propagate(s.loc[i])
      res == <<XOR(p[1], p[2]), XOR(p[1], p[3])>>
  IN A2BLevel(SetLoc(s, i, [res |-> res]), i, Shr(p, cfg.k), sig_g_mss, 0)

\* x = (x & 0x7777777777777777) ^ ops, slot by slot
Combine(x, ops) ==
  Shr(<<Trunc(XOR(AND(x.v[1], Mask7777), ops.v[1]), cfg.k),
        Trunc(XOR(AND(x.v[2], Mask7777), ops.v[2]), cfg.k),
        Trunc(XOR(AND(x.v[3], Mask7777), ops.v[3]), cfg.k)>>, cfg.k)

\* the resharing of gr3_ass has returned gr: that of pr3_ass starts
A2BCellG(s, i, gr) ==
  ResharingAss2MssStart(CallMore(SetLoc(s, i, [gr |-> gr]), i, <<"ResharingAss2Mss">>),
                        i, s.loc[i].pr3, "a2b_p")

\* the cell of level l.lev has returned the pair (l.gr, pr): its operands and
\* its results join the cells the party has evaluated
CellReturned(l, pr) ==
  (IF "cells" \in DOMAIN l THEN l.cells ELSE <<>>)
    \o <<[pops |-> CellOps(l.p, l.lev), gops |-> CellOps(l.g, l.lev),
          gr |-> l.gr, pr |-> pr]>>

\* the resharing of pr3_ass has returned pr: the signals of the next level
A2BCellP(s, i, pr) ==
  LET l  == s.loc[i]
      g  == IF l.lev = 0 THEN l.gr ELSE Combine(l.g, l.gr)
      p  == IF l.lev = 0 THEN pr ELSE Combine(l.p, pr)
      s1 == SetLoc(s, i, [cells |-> CellReturned(l, pr)])
  IN IF l.lev < 2 THEN A2BLevel(s1, i, p, g, l.lev + 1) ELSE A2BLast(s1, i, p, g)

\* a kernel returns the share res: its slots and the type it is declared with
ReturnShare(s, i, res) ==
  Return(SetLoc(s, i, [out_type |-> [nbits |-> res.nbits, w |-> res.w]]), i, res.v)

\* the caller goes on with the share res its resharing returned
Continue(s, i, res) ==
  LET l == s.loc[i]
  IN CASE l.cont = "ret" -> ReturnShare(s, i, res)
       [] l.cont = "msb_sig" -> MsbPPA(s, i, res)
       [] l.cont = "msb_loop" ->
            LET gp == unpack_2_bitvec_mss(res)
            IN MsbLoop(CallMore(s, i, <<"unpack_2_bitvec_mss">>), i, gp[2], gp[1],
                       l.k, l.res)
       [] l.cont = "msb_last" ->
            \* the loop exits with the pair (g, p), kept in exit
            MsbOut(SetLoc(CallMore(s, i, <<"unpack_2_bitvec_rss">>), i,
                          [exit |-> unpack_2_bitvec_rss(res)]), i,
                   unpack_2_bitvec_rss(res)[1], l.res)
       [] l.cont = "a2b_sig" -> A2BPPA(s, i, res)
       [] l.cont = "a2b_g" -> A2BCellG(s, i, res)
       [] l.cont = "a2b_p" -> A2BCellP(s, i, res)

\* a party blocked in a resharing takes the message it waits for
ResharingRecv(s, i) ==
  IF s.pc[i] = "a2m_m1" THEN ResharingAss2MssRotate(s, i)
  ELSE Continue(Recv(s, ResharingFrom(s, i), i, ResharingTag(s, i)), i,
                ResharingOut(s, i))

\* the two resharings run as kernels of their own
ResharingKernels == {"ResharingRss2Mss", "ResharingAss2Mss"}

\* the three resharings that communicate
RotateKernels == ResharingKernels \cup {"ResharingAss2Rss"}

ResharingStart(s, i) ==
  IF Kern(s, i) = "ResharingRss2Mss"
  THEN ResharingRss2MssStart(s, i, Shr(In(s, i), NBits(s, i)), "ret")
  ELSE IF Kern(s, i) = "ResharingAss2Rss"
  THEN ResharingAss2RssStart(s, i, Shr(<<In(s, i)[1]>>, NBits(s, i)), "ret")
  ELSE ResharingAss2MssStart(s, i, Shr(<<In(s, i)[1]>>, NBits(s, i)), "ret")

ResharingReady(s, i) ==
  IF ~Running(s, i) THEN FALSE
  ELSE IF Kern(s, i) \notin RotateKernels THEN FALSE
  ELSE IF s.pc[i] = "start" THEN TRUE
  ELSE CanRecv(s, ResharingFrom(s, i), i)

ResharingStep(s, i) ==
  IF s.pc[i] = "start" THEN ResharingStart(s, i) ELSE ResharingRecv(s, i)

\* MsbA2B::proc and A2B::proc: the party runs up to its next blocking call
ConvertReady(s, i, kernel) ==
  IF ~Running(s, i) THEN FALSE
  ELSE IF Kern(s, i) /= kernel THEN FALSE
  ELSE IF s.pc[i] = "start" THEN TRUE
  ELSE IF s.pc[i] \in {"msb_bcast", "msb_dn"}
  THEN CanRecv(s, SpecialResharingFrom(s, i), i)
  ELSE CanRecv(s, ResharingFrom(s, i), i)

ConvertStep(s, i) ==
  Signals(IF s.pc[i] = "start" THEN SpecialResharingStart(s, i)
          ELSE IF s.pc[i] \in {"msb_bcast", "msb_dn"} THEN SpecialResharingRecv(s, i)
          ELSE ResharingRecv(s, i),
          i, IF Kern(s, i) = "A2B" THEN "a2b_sig" ELSE "msb_sig")

(***************************************************************************)
(* The local functions on boolean shares, run by a party on the shares it  *)
(* holds: the two bit splits one after the other, and a pack followed by   *)
(* the unpack of its result.                                               *)
(***************************************************************************)
\* the kernels that make the type of a boolean share of cfg.nbits bits:
\* calcBShareBacktype alone, and the constructor of BShrTy with a back type
\* of cfg.k bits
TypeKernels == {"calcBShareBacktype", "BShrTy"}

MakeTypeReady(s, i) == IF ~Running(s, i) THEN FALSE ELSE Kern(s, i) \in TypeKernels

MakeTypeStep(s, i) ==
  LET nb == NBits(s, i)
      w  == IF Kern(s, i) = "BShrTy" THEN cfg.k ELSE calcBShareBacktype(nb)
  IN IF w = 0 THEN Fail(s, i)
     ELSE IF Kern(s, i) = "BShrTy" /\ ~BShrTyEnforce(w, nb) THEN Fail(s, i)
     ELSE ReturnShare(s, i, [v |-> <<>>, nbits |-> nb, w |-> w])

\* the three slots party i holds of an MSS share
MssSlots(x, i) == <<x[i + 1], x[NextRank(i) + 1], x[PrevRank(i) + 1]>>

BitSplitReady(s, i) ==
  IF ~Running(s, i) THEN FALSE ELSE Kern(s, i) \in {"bit_split", "bit_split_mss"}

BitSplitStep(s, i) ==
  IF ~SplitNbits(NBits(s, i)) THEN Fail(s, i)
  ELSE IF Kern(s, i) = "bit_split"
  THEN Return(s, i, bit_split(Shr(In(s, i), NBits(s, i))))
  ELSE Return(s, i, bit_split_mss(Shr(MssSlots(cfg.x, i), NBits(s, i))))

PackKernels == {"pack_2_bitvec_ass", "pack_2_bitvec_rss", "pack_2_bitvec_mss"}

UnpackKernels == {"unpack_2_bitvec_ass", "unpack_2_bitvec_rss", "unpack_2_bitvec_mss"}

PackReady(s, i) == IF ~Running(s, i) THEN FALSE ELSE Kern(s, i) \in PackKernels

PackStep(s, i) ==
  LET nb == NBits(s, i)
  IN CASE Kern(s, i) = "pack_2_bitvec_ass" ->
            Return(s, i, pack_2_bitvec_ass(Shr(<<In(s, i)[1]>>, nb),
                                           Shr(<<s.loc[i].rhs[1]>>, nb)))
       [] Kern(s, i) = "pack_2_bitvec_rss" ->
            Return(s, i, pack_2_bitvec_rss(Shr(In(s, i), nb), Shr(s.loc[i].rhs, nb)))
       [] Kern(s, i) = "pack_2_bitvec_mss" ->
            Return(s, i, pack_2_bitvec_mss(Shr(MssSlots(cfg.x, i), nb),
                                           Shr(MssSlots(cfg.y, i), nb)))

UnpackReady(s, i) == IF ~Running(s, i) THEN FALSE ELSE Kern(s, i) \in UnpackKernels

\* the unpack takes the share the pack returned
UnpackStep(s, i) ==
  CASE Kern(s, i) = "unpack_2_bitvec_ass" -> Return(s, i, unpack_2_bitvec_ass(s.out[i][1]))
    [] Kern(s, i) = "unpack_2_bitvec_rss" -> Return(s, i, unpack_2_bitvec_rss(s.out[i][1]))
    [] Kern(s, i) = "unpack_2_bitvec_mss" -> Return(s, i, unpack_2_bitvec_mss(s.out[i][1]))

(***************************************************************************)
(* The gates and the resharings without communication, run by a party as   *)
(* kernels of their own on the shares it holds.                            *)
(***************************************************************************)
AssGates == {"AssXor2"}

RssGates == {"RssXor2", "RssAnd2NoComm", "ResharingRss2Ass"}

MssGates ==
  {"MssXor2", "MssAnd2NoComm", "ResharingMss2Rss", "MssAnd3NoComm", "MssAnd4NoComm"}

GateKernels == AssGates \cup RssGates \cup MssGates

\* the slots party i holds of the sharing with the masks or shares z and
\* the external value D, in the representation the gate takes
SlotsFor(kernel, z, D, i) ==
  IF kernel \in AssGates THEN <<z[i + 1]>>
  ELSE IF kernel \in RssGates THEN InShare(z, i)
  ELSE <<D, z[i + 1], z[NextRank(i) + 1]>>

\* the first operand: that of the run, or the result of the kernel before
GateLhs(s, i) ==
  Shr(IF Stage(s, i) = 1 THEN SlotsFor(Kern(s, i), cfg.x, cfg.c[1], i) ELSE In(s, i),
      NBits(s, i))

GateRhs(s, i) == Shr(SlotsFor(Kern(s, i), cfg.y, cfg.c[2], i), cfg.rhs_nbits)

\* the third and the fourth operand of MssAnd3NoComm and MssAnd4NoComm:
\* B/MSS sharings of the external values of the first and of the second
\* operand, under the masks of these operands handed round by one party
HandRound(z) == <<z[2], z[3], z[1]>>

GateOp3(s, i) ==
  Shr(SlotsFor(Kern(s, i), HandRound(cfg.x),
               XOR(cfg.c[1], XOR3(cfg.x[1], cfg.x[2], cfg.x[3])), i), cfg.nbits)

GateOp4(s, i) ==
  Shr(SlotsFor(Kern(s, i), HandRound(cfg.y),
               XOR(cfg.c[2], XOR3(cfg.y[1], cfg.y[2], cfg.y[3])), i), cfg.rhs_nbits)

\* a gate that waits for a message of the previous rank before it goes on
GateReadyAfterRecv(s, i) ==
  IF ~Running(s, i) THEN FALSE
  ELSE Kern(s, i) \in GateKernels /\ CanRecv(s, PrevRank(i), i)

GateReady(s, i) == IF ~Running(s, i) THEN FALSE ELSE Kern(s, i) \in GateKernels

\* the two AND gates call fillPrssPair once for their masks
GateStep(s, i) ==
  LET l  == GateLhs(s, i)
      r  == GateRhs(s, i)
      s1 == DrawPrss(s, i, 1, calcBShareBacktype(MinNbits(l, r)))
  IN CASE Kern(s, i) = "AssXor2" -> ReturnShare(s, i, AssXor2(l, r))
       [] Kern(s, i) = "RssXor2" -> ReturnShare(s, i, RssXor2(l, r))
       [] Kern(s, i) = "MssXor2" -> ReturnShare(s, i, MssXor2(l, r))
       [] Kern(s, i) = "RssAnd2NoComm" -> ReturnShare(s1, i, RssAnd2NoComm(l, r))
       [] Kern(s, i) = "MssAnd2NoComm" -> ReturnShare(s1, i, MssAnd2NoComm(l, r))
       [] Kern(s, i) = "ResharingMss2Rss" -> ReturnShare(s, i, ResharingMss2Rss(l))
       [] Kern(s, i) = "ResharingRss2Ass" -> ReturnShare(s, i, ResharingRss2Ass(l))
       [] Kern(s, i) = "MssAnd3NoComm" ->
            ReturnShare(DrawPrss(s1, i, 1, calcBShareBacktype(MinNbits(l, r))), i,
                        MssAnd3NoComm(l, r, GateOp3(s, i)))
       [] Kern(s, i) = "MssAnd4NoComm" ->
            ReturnShare(DrawPrss(DrawPrss(s1, i, 1, calcBShareBacktype(MinNbits(l, r))),
                                 i, 1, calcBShareBacktype(MinNbits(l, r))), i,
                        MssAnd4NoComm(l, r, GateOp3(s, i), GateOp4(s, i)))

(***************************************************************************)
(* The runs: a kernel, the ring, the direction of rotate, the generators'  *)
(* seed, the public pivot and the shares of the arguments.                 *)
(***************************************************************************)
Triples(w) ==
  {<<a, b, c>> : a \in Samples(w), b \in Samples(w), c \in Samples(w)}

\* x and y are the first elements of the arguments; the first argument has
\* numel elements, the second rhs_numel of them; the second operand of a gate
\* is declared with rhs_nbits bits; for an MSS operand x and y are the masks
\* and c is the pair of the external values
Run(kernel, k, fromNext, seed, pivot, nbits, x, y, c) ==
  [kernel |-> kernel, k |-> k, fromNext |-> fromNext, seed |-> seed,
   pivot |-> pivot, nbits |-> nbits, x |-> x, y |-> y, c |-> c, ub |-> "wrap",
   numel |-> 1, rhs_numel |-> 1, rhs_nbits |-> nbits]

Dirs == BOOLEAN

Seeds == 0 .. (NSeeds - 1)

\* the pivots that give the three parties three different roles
Pivots3 == {{}, {0}, {1}}

\* boolean sharings of nbits bits, converted by both kernels or by the selector
B2ARunsOf(kernel, nbits, pivots) ==
  {Run(kernel, k, d, sd, pv, nbits, x, x, {}) :
     k \in Fields, d \in Dirs, sd \in Seeds, pv \in pivots, x \in Triples(nbits)}

\* inputs declared wider than the ring
WideRuns ==
  {r \in UNION {B2ARunsOf(kernel, nb, {{}}) :
                  kernel \in {"B2AByOT", "B2AByPPA"}, nb \in {33, 129}} :
     r.nbits > r.k /\ r.seed = 0}

\* sharings of three bits whose bits differ from one position to the next
MixedTriples == {<<{0}, {1, 2}, {0, 2}>>, <<{0, 1}, {1}, {2}>>}

MixedRuns ==
  {Run("OTthenPPA", k, d, sd, pv, 3, x, x, {}) :
     k \in Fields, d \in Dirs, sd \in Seeds, pv \in Pivots3, x \in MixedTriples}

B2ARuns ==
  UNION {B2ARunsOf("OTthenPPA", nb, Pivots) : nb \in {0, 1}}
  \cup WideRuns
  \cup MixedRuns
  \cup B2ARunsOf("OTthenPPA", 3, Pivots3)
  \cup B2ARunsOf("B2ASelector", 8, {{0}})
  \cup UNION {B2ARunsOf("B2ASelector", nb, {{}}) : nb \in {9, 32}}

\* a second sharing to compare x with: of the same value, of another value
Others(x, k) ==
  {<<x[2], x[3], x[1]>>, <<x[1], XOR(x[2], {0}), x[3]>>, <<{}, {k - 1}, {}>>}

\* a public constant to compare x with
Consts(x, k) == {ADD3(x[1], x[2], x[3], k), x[1], {0}}

EqualAARuns(k, x) ==
  {Run("EqualAA", k, d, sd, pv, k, x, y, {}) :
     d \in Dirs, sd \in Seeds, pv \in Pivots, y \in Others(x, k)}

EqualAPRuns(k, x) ==
  {Run("EqualAP", k, d, sd, pv, k, x, x, c) :
     d \in Dirs, sd \in Seeds, pv \in Pivots, c \in Consts(x, k)}

EqRunsOf(k) ==
  UNION {EqualAARuns(k, x) \cup EqualAPRuns(k, x) : x \in Triples(k)}

\* EqualAA on a second argument of another shape: two elements
ShapeRuns ==
  {[r EXCEPT !.rhs_numel = 2] :
     r \in {q \in UNION {EqualAARuns(32, x) : x \in Triples(32)} :
              q.seed = 0 /\ q.pivot \in Pivots3}}

EqRuns == UNION {EqRunsOf(k) : k \in Fields} \cup ShapeRuns

\* the equality kernels on arrays of no element
EqEmptyRuns ==
  {[r EXCEPT !.numel = 0, !.rhs_numel = 0] :
     r \in {q \in EqRuns : q.x = <<{}, {}, {}>> /\ q.rhs_numel = 1}}

\* the outcomes of a shift by the width of the type or more
Ubs(k) == IF k = 128 THEN {"wrap", "zero"} ELSE {"wrap"}

\* arithmetic sharings whose sum carries into and out of the top bit, and
\* one whose carries run through the groups of every level of the adder
ConvTriples(k) ==
  Triples(k) \cup {<<Sample(2, k), Sample(2, k), Sample(3, k)>>,
                   <<Sample(4, k), Sample(4, k), Sample(1, k)>>,
                   <<Bits(k \div 2), Sample(3, k), Sample(5, k)>>,
                   <<Bits(k - 1), Sample(3, k), Sample(0, k)>>,
                   <<Bits(k) \ {2}, {}, {3, 4}>>}

ConvRunsOf(kernel, k) ==
  {[Run(kernel, k, d, 0, {}, k, x, x, {}) EXCEPT !.ub = u] :
     d \in Dirs, x \in ConvTriples(k), u \in Ubs(k)}

MsbRuns == UNION {ConvRunsOf("MsbA2B", k) : k \in Fields}

A2BRuns == UNION {ConvRunsOf("A2B", k) \cup ConvRunsOf("RoundTrip", k) : k \in Fields}

ResharingRuns ==
  {Run(kernel, k, d, sd, {}, nb, x, x, {}) :
     kernel \in ResharingKernels, k \in Fields, d \in Dirs, sd \in Seeds,
     nb \in {8, 32}, x \in Triples(8)}

\* the j-th sample word of a local function, and sharings of them
BitSample(j, w) == Sample(j % NBitSamples, w)

BitTriples(w) ==
  {<<BitSample(j, w), BitSample(j + 1, w), BitSample(j + 2, w)>> :
     j \in 0 .. (NBitSamples - 1)}

\* widths to split: none, odd, powers of two, even ones between them, and
\* widths around the 64 bits of pext_u64
SplitWidths == {0, 2, 3, 6, 8, 12, 16, 62, 64, 66, 128}

BothUbs == {"wrap", "zero"}

SplitRunsOf(nb) ==
  {[Run("BitSplit", 128, TRUE, 0, {}, nb, x, x, {}) EXCEPT !.ub = u] :
     x \in BitTriples(nb), u \in BothUbs}

SplitRuns == UNION {SplitRunsOf(nb) : nb \in SplitWidths}

\* widths of the halves to pack: around the widths of the element types
\* and of int
PackWidths == {1, 4, 8, 16, 31, 32, 33, 64}

PackRunsOf(nb) ==
  {[Run(kernel, 128, TRUE, 0, {}, nb, x, y, {}) EXCEPT !.ub = u] :
     kernel \in {"PackUnpackAss", "PackUnpackRss", "PackUnpackMss"},
     x \in BitTriples(nb), y \in BitTriples(nb), u \in BothUbs}

PackRuns == UNION {PackRunsOf(nb) : nb \in PackWidths}

\* the widths of the unsigned types of a share's slots
BackWidths == {8, 16, 32, 64, 128}

\* the largest number of bits a type is asked for
MaxTypeNbits == 130

TypeRuns ==
  {Run("calcBShareBacktype", 128, TRUE, 0, {}, nb, <<{}, {}, {}>>, <<{}, {}, {}>>, {}) :
     nb \in 0 .. MaxTypeNbits}
  \cup {Run("BShrTy", w, TRUE, 0, {}, nb, <<{}, {}, {}>>, <<{}, {}, {}>>, {}) :
           w \in BackWidths, nb \in 0 .. MaxTypeNbits}

\* widths of the operands of a gate
GateWidths == {3, 8}

\* the operands of a gate: shares or masks x and y and external values c
GateRunsOf(nb, rnb) ==
  {[Run(kernel, 128, TRUE, 0, {}, nb, x, y, <<Dx, Dy>>) EXCEPT !.rhs_nbits = rnb] :
     kernel \in GateKernels, x \in BitTriples(nb), y \in BitTriples(rnb),
     Dx \in {{}, BitSample(5, nb)}, Dy \in {BitSample(1, rnb)}}

GateRuns == UNION {GateRunsOf(nb, rnb) : nb \in GateWidths, rnb \in GateWidths}

\* a resharing followed by the resharings that lead back
ChainRunsOf(nb) ==
  {Run(kernel, 128, d, 0, {}, nb, x, x, <<D, D>>) :
     kernel \in ResharingChains, d \in Dirs, x \in BitTriples(nb),
     D \in {{}, BitSample(5, nb)}}

ChainRuns == UNION {ChainRunsOf(nb) : nb \in {3, 8, 32}}

Begin(runs) ==
  /\ cfg \in runs
  /\ pc = [i \in Ranks |-> "start"]
  /\ loc = [i \in Ranks |-> [in |-> InShare(cfg.x, i), rhs |-> InShare(cfg.y, i),
                              nbits |-> cfg.nbits]]
  /\ chan = [p \in Ranks \X Ranks |-> <<>>]
  /\ rlog = [i \in Ranks |-> <<>>]
  /\ cursor = [i \in Ranks |-> [prss |-> 0, publ |-> 0, priv |-> 0, draws |-> <<>>]]
  /\ out = [i \in Ranks |-> <<>>]

(***************************************************************************)
(* The actions: a party runs its kernel up to its next blocking recv.      *)
(***************************************************************************)
B2AByOT(i) == B2AByOTReady(State, i) /\ Apply(B2AByOTStep(State, i))

B2AByPPA(i) == B2AByPPAReady(State, i) /\ Apply(B2AByPPAStep(State, i))

AddBB == (\A i \in Ranks : pc[i] = "add_bb") /\ Apply(add_bb(State))

eqz(i) == eqzReady(State, i) /\ Apply(eqzStep(State, i))

MsbA2B(i) == ConvertReady(State, i, "MsbA2B") /\ Apply(ConvertStep(State, i))

A2B(i) == ConvertReady(State, i, "A2B") /\ Apply(ConvertStep(State, i))

Resharing(i) == ResharingReady(State, i) /\ Apply(ResharingStep(State, i))

BitSplit(i) == BitSplitReady(State, i) /\ Apply(BitSplitStep(State, i))

Pack(i) == PackReady(State, i) /\ Apply(PackStep(State, i))

Unpack(i) == UnpackReady(State, i) /\ Apply(UnpackStep(State, i))

Gate(i) == GateReady(State, i) /\ Apply(GateStep(State, i))

MakeType(i) == MakeTypeReady(State, i) /\ Apply(MakeTypeStep(State, i))

InitMsb == Begin(MsbRuns)

NextMsb == \E i \in Ranks : MsbA2B(i)

SpecMsb == InitMsb /\ [][NextMsb]_vars

InitA2B == Begin(A2BRuns)

NextA2B == (\E i \in Ranks : A2B(i)) \/ (\E i \in Ranks : B2AByPPA(i)) \/ AddBB

SpecA2B == InitA2B /\ [][NextA2B]_vars

InitB2A == Begin(B2ARuns)

NextB2A == (\E i \in Ranks : B2AByOT(i)) \/ (\E i \in Ranks : B2AByPPA(i)) \/ AddBB

SpecB2A == InitB2A /\ [][NextB2A]_vars

InitEq == Begin(EqRuns)

NextEq == \E i \in Ranks : eqz(i)

SpecEq == InitEq /\ [][NextEq]_vars

\* eqz on arrays of one element and of none
InitEqz == Begin(EqRuns \cup EqEmptyRuns)

NextEqz == \E i \in Ranks : eqz(i)

SpecEqz == InitEqz /\ [][NextEqz]_vars

(***************************************************************************)
(* The three parties running any of the kernels.                           *)
(***************************************************************************)
MssRuns ==
  ResharingRuns \cup UNION {ConvRunsOf("MsbA2B", k) \cup ConvRunsOf("A2B", k) : k \in Fields}

InitMss == Begin(MssRuns)

NextMss ==
  (\E i \in Ranks : Resharing(i)) \/ (\E i \in Ranks : MsbA2B(i))
  \/ (\E i \in Ranks : A2B(i))

SpecMss == InitMss /\ [][NextMss]_vars

\* one seed, two pivots and one ring for the kernels the ring and the seed
\* do not steer; every ring for the conversions to bits
OneSeed(runs) ==
  {r \in runs : r.seed = 0 /\ r.pivot \in {{}, {1}} /\ r.k = 64}

Init == Begin(OneSeed(B2ARuns \cup EqRuns \cup ResharingRuns) \cup MsbRuns \cup A2BRuns)

Next ==
  \/ \E i \in Ranks : B2AByOT(i)
  \/ \E i \in Ranks : B2AByPPA(i)
  \/ AddBB
  \/ \E i \in Ranks : eqz(i)
  \/ \E i \in Ranks : MsbA2B(i)
  \/ \E i \in Ranks : A2B(i)
  \/ \E i \in Ranks : Resharing(i)

Spec == Init /\ [][Next]_vars

\* the kernels that give the parties roles by the public pivot, in every
\* ring and under every pivot
InitRoles == Begin(B2ARuns \cup EqRuns)

NextRoles ==
  \/ \E i \in Ranks : B2AByOT(i)
  \/ \E i \in Ranks : B2AByPPA(i)
  \/ AddBB
  \/ \E i \in Ranks : eqz(i)

SpecRoles == InitRoles /\ [][NextRoles]_vars

\* the gates and the resharings, alone and one after the other
InitGates == Begin(GateRuns \cup ChainRuns)

NextGates == (\E i \in Ranks : Gate(i)) \/ (\E i \in Ranks : Resharing(i))

SpecGates == InitGates /\ [][NextGates]_vars

\* the local operations and the two conversions that are built from them
InitLocal ==
  \/ Begin(GateRuns)
  \/ Begin(SplitRuns \cup PackRuns \cup MsbRuns
              \cup UNION {ConvRunsOf("A2B", k) : k \in Fields})

NextLocal ==
  \/ \E i \in Ranks : Gate(i)
  \/ \E i \in Ranks : BitSplit(i)
  \/ \E i \in Ranks : Pack(i)
  \/ \E i \in Ranks : Unpack(i)
  \/ \E i \in Ranks : MsbA2B(i)
  \/ \E i \in Ranks : A2B(i)

SpecLocal == InitLocal /\ [][NextLocal]_vars

\* the types of boolean shares
InitTypes == Begin(TypeRuns)

NextTypes == \E i \in Ranks : MakeType(i)

SpecTypes == InitTypes /\ [][NextTypes]_vars

\* the local functions on boolean shares
InitBits == Begin(SplitRuns \cup PackRuns)

NextBits ==
  (\E i \in Ranks : BitSplit(i)) \/ (\E i \in Ranks : Pack(i))
  \/ (\E i \in Ranks : Unpack(i))

SpecBits == InitBits /\ [][NextBits]_vars

(***************************************************************************)
(* What the results reconstruct to.                                        *)
(***************************************************************************)
\* every party has returned from the n-th kernel of the plan
AllReturned(n) == \A i \in Ranks : Len(out[i]) >= n

SumOut(n) == ADD3(out[0][n][1], out[1][n][1], out[2][n][1], cfg.k)

XorOut(n) == XOR3(out[0][n][1], out[1][n][1], out[2][n][1])

XorIn(x) == XOR3(x[1], x[2], x[3])

SumIn(x) == ADD3(x[1], x[2], x[3], cfg.k)

\* the n-th kernel of the plan is kernel and every party has returned from it
Returned(kernel, n) ==
  /\ Len(Plan(cfg.kernel)) >= n
  /\ Plan(cfg.kernel)[n] = kernel
  /\ AllReturned(n)

(***************************************************************************)
(* A run of the conversion kernels as a function of the input sharing: the *)
(* parties take their steps one after the other until none can go on.  The *)
(* kernels are deterministic and a recv names its channel, so the messages *)
(* a party receives do not depend on the order of the steps.               *)
(***************************************************************************)
StartOf(x) ==
  [pc |-> [i \in Ranks |-> "start"],
   loc |-> [i \in Ranks |-> [in |-> InShare(x, i), rhs |-> InShare(x, i),
                              nbits |-> cfg.nbits]],
   chan |-> [p \in Ranks \X Ranks |-> <<>>],
   rlog |-> [i \in Ranks |-> <<>>],
   cursor |-> [i \in Ranks |-> [prss |-> 0, publ |-> 0, priv |-> 0, draws |-> <<>>]],
   out |-> [i \in Ranks |-> <<>>]]

CanStep(s, i) == Running(s, i) /\ ConvertReady(s, i, Kern(s, i))

RECURSIVE Exec(_)
Exec(s) ==
  IF \E i \in Ranks : CanStep(s, i)
  THEN Exec(ConvertStep(s, CHOOSE i \in Ranks : CanStep(s, i)))
  ELSE s

\* the values party P receives, in the order it receives them
View(s, P) == [j \in 1 .. Len(s.rlog[P]) |-> s.rlog[P][j].val]

\* the sharings that give party P the two shares x gives it
Twins(x, P) ==
  {[x EXCEPT ![PrevRank(P) + 1] = v] : v \in Samples(cfg.k)}

(***************************************************************************)
(* The claims.                                                             *)
(***************************************************************************)
\* C1: whenever the three parties have returned from A2B on a sharing of x,
\* the XOR of their first output slots is x, for every ring width k.
C1_A2BReconstructs == Returned("A2B", 1) => XorOut(1) = SumIn(cfg.x)

\* C2: whenever the three parties have returned from MsbA2B on a sharing of
\* x, the XOR of their first output slots is x >> (k - 1), the top bit of x.
C2_MsbTopBit ==
  Returned("MsbA2B", 1) => XorOut(1) = SHR(SumIn(cfg.x), cfg.k - 1)

\* C3: the kernel B2ASelector chooses returns a sharing whose ring sum is the
\* value v of its boolean input, and after A2B it gives back the original x.
C3_B2ASelector ==
  /\ Returned("B2ASelector", 1) => SumOut(1) = XorIn(cfg.x)
  /\ Returned("B2ASelector", 2) => SumOut(2) = XorOut(1) /\ SumOut(2) = SumIn(cfg.x)

\* C4: EqualAA returns a sharing that reconstructs to exactly 1 when x = y
\* and to exactly 0 otherwise.
C4_EqualAA ==
  Returned("EqualAA", 1) => XorOut(1) = BitWord(SumIn(cfg.x) = SumIn(cfg.y))

C4_EqualAAWitness ==
  /\ Returned("EqualAA", 1)
  /\ SumIn(cfg.x) = SumIn(cfg.y)
  /\ cfg.x /= cfg.y
  /\ XorOut(1) = {0}

\* the sharing x with the constant c subtracted from its second share
MinusConst(x, c) == <<x[1], SUB(x[2], c, cfg.k), x[3]>>

\* C5: EqualAP subtracts c from one additive share, the one rank 0 holds in
\* its second slot and rank 1 in its first, so that eqz gets a replicated
\* sharing of x - c, and the result reconstructs to 1 iff x = c.
C5_EqualAP ==
  cfg.kernel = "EqualAP" =>
    /\ \A i \in Ranks :
         EqualAPOut(i, InShare(cfg.x, i), cfg.c, cfg.k)
           = InShare(MinusConst(cfg.x, cfg.c), i)
    /\ AllReturned(1) => XorOut(1) = BitWord(SumIn(cfg.x) = cfg.c)

C5_EqualAPWitness ==
  /\ Returned("EqualAP", 1)
  /\ cfg.c /= {}
  /\ SumIn(cfg.x) = cfg.c
  /\ XorOut(1) = {0}

C7_ViewHidesSecret ==
  (Returned("MsbA2B", 1) \/ Returned("A2B", 1)) =>
    \A P \in Ranks : \A x2 \in Twins(cfg.x, P) :
      View(Exec(StartOf(x2)), P) = View(State, P)

\* C8: the message a recv takes was sent with the tag the recv asks for.
C8_TagsMatch ==
  \A i \in Ranks : \A j \in 1 .. Len(rlog[i]) : rlog[i][j].want = rlog[i][j].got

\* the kernels that return a replicated sharing
RssKernels ==
  {"B2AByPPA", "B2AByOT", "B2ASelector", "EqualAA", "EqualAP", "MsbA2B", "A2B"}

\* C9: when rotate delivers the buffer of rank i+1, the second slot a party
\* returns from a kernel is the first slot the next party returns.
C9_NeighbourSlots ==
  cfg.fromNext =>
    \A n \in 1 .. Len(Plan(cfg.kernel)) :
      (Plan(cfg.kernel)[n] \in RssKernels /\ AllReturned(n)) =>
        \A i \in Ranks : out[i][n][2] = out[NextRank(i)][n][1]

C9_NeighbourSlotsWitness ==
  /\ cfg.fromNext
  /\ cfg.kernel = "OTthenPPA"
  /\ AllReturned(2)
  /\ \A i \in Ranks : out[i][2][1] /= out[NextRank(i)][2][1]

\* the three parties hold the same external value and party i's third slot
\* is the second slot of party i+1
MssShared(v) ==
  /\ v[0][1] = v[1][1]
  /\ v[1][1] = v[2][1]
  /\ \A i \in Ranks : v[i][3] = v[NextRank(i)][2]

\* every party is past the first round of MsbA2B / A2B
PastFirstRound ==
  /\ cfg.kernel \in {"MsbA2B", "A2B"}
  /\ \A i \in Ranks : pc[i] \notin {"start", "msb_bcast", "msb_dn"}

\* the MSS shares the run has made so far are well formed
MssInvariant ==
  /\ (cfg.kernel \in ResharingKernels /\ AllReturned(1)) =>
       MssShared([i \in Ranks |-> out[i][1]])
  /\ PastFirstRound =>
       /\ MssShared([i \in Ranks |-> loc[i].m])
       /\ MssShared([i \in Ranks |-> loc[i].n])

Halted ==
  /\ \A i \in Ranks : ~B2AByOTReady(State, i)
  /\ \A i \in Ranks : ~B2AByPPAReady(State, i)
  /\ \E i \in Ranks : pc[i] /= "add_bb"

\* C11: when the three parties invoke B2AByOT, every party returns its
\* output, whatever the public pivot: a run never comes to a halt with a
\* party that has not returned from B2AByOT.
C11_OTReturns ==
  (Plan(cfg.kernel)[1] = "B2AByOT" /\ Halted) => AllReturned(1)

\* the ranks that play helper, receiver and sender
Roles(pivot) == <<RoleP0(pivot), RoleP1(pivot), RoleP2(pivot)>>

\* C12: for every pivot, with (pivot + 1) and (pivot + 2) wrapping modulo
\* 2^64, the three roles go to three different ranks.
C12_RolesDistinct ==
  LET r == Roles(cfg.pivot)
  IN {r[1], r[2], r[3]} = Ranks /\ r[1] /= r[2] /\ r[2] /= r[3] /\ r[1] /= r[3]

(***************************************************************************)
(* The parties' draws from the correlated generator.                       *)
(***************************************************************************)
\* the calls of fillPrssPair party i has made while in the n-th kernel or
\* before
DrawsUpTo(i, n) ==
  IF Len(out[i]) >= n /\ n < Len(Plan(cfg.kernel))
  THEN SubSeq(cursor[i].draws, 1,
              IF cfg.nbits = 0 THEN 0 ELSE Min(3, Len(cursor[i].draws)))
  ELSE cursor[i].draws

IsPrefix(a, b) == Len(a) <= Len(b) /\ a = SubSeq(b, 1, Len(a))

RoleKernels == {"B2AByOT", "EqualAA", "EqualAP"}

\* C13: in eqz and in B2AByOT the parties make the same calls of
\* fillPrssPair (number of elements, size) in the same order whatever their
\* role, and when the kernel has returned at the three parties their cursors
\* are equal.
C13_SameDraws ==
  Plan(cfg.kernel)[1] \in RoleKernels =>
    /\ \A i, j \in Ranks :
         \/ IsPrefix(DrawsUpTo(i, 1), DrawsUpTo(j, 1))
         \/ IsPrefix(DrawsUpTo(j, 1), DrawsUpTo(i, 1))
    /\ AllReturned(1) =>
         \A i \in Ranks : DrawsUpTo(i, 1) = DrawsUpTo(0, 1)
    /\ (\A i \in Ranks : Len(out[i]) = 1 /\ pc[i] \in {"start", "done"}) =>
         \A i \in Ranks : cursor[i].prss = cursor[0].prss

C13_SameDrawsWitness ==
  /\ cfg.kernel = "EqualAA"
  /\ AllReturned(1)
  /\ Roles(cfg.pivot) = <<2, 0, 1>>
  /\ Len(cursor[0].draws) > 3
  /\ cursor[1].prss = cursor[2].prss
  /\ cursor[1].prss > 0

(***************************************************************************)
(* The choice of B2ASelector.                                              *)
(***************************************************************************)
OTPcs == {"ot_recv_c2", "ot_recv_mc", "ot_recv_m0", "ot_recv_m1"}

PPAPcs == {"ppa_rot_rand", "add_bb", "ppa_reveal", "ppa_rot_out"}

\* the kernel party i has entered, told by its first call of fillPrssPair:
\* B2AByOT asks for nbits elements, B2AByPPA for one
Entered(i) ==
  IF cursor[i].draws = <<>> THEN "none"
  ELSE IF cursor[i].draws[1] = <<cfg.nbits, cfg.k \div 8>> THEN "B2AByOT"
  ELSE "B2AByPPA"

\* C14: B2ASelector hands its input to B2AByOT exactly when nbits <= 8 and
\* to B2AByPPA exactly when nbits > 8, the same at the three parties.
C14_SelectorChoice ==
  cfg.kernel = "B2ASelector" =>
    \A i \in Ranks :
      /\ pc[i] \in OTPcs => cfg.nbits <= 8
      /\ pc[i] \in PPAPcs => cfg.nbits > 8
      /\ pc[i] /= "start" =>
           Entered(i) = IF cfg.nbits <= 8 THEN "B2AByOT" ELSE "B2AByPPA"
      /\ \A j \in Ranks :
           (pc[i] /= "start" /\ pc[j] /= "start") => Entered(i) = Entered(j)

C14_SelectorChoiceWitness ==
  /\ cfg.kernel = "B2ASelector"
  /\ cfg.nbits = 8
  /\ AllReturned(1)
  /\ \A i \in Ranks : Entered(i) = "B2AByOT"
  /\ \E i \in Ranks : Len(rlog[i]) = 3

(***************************************************************************)
(* The declared type of the result of MsbA2B.                              *)
(***************************************************************************)
\* C15: the array MsbA2B returns is declared a boolean share of width
\* nbits = 1, its back-type the smallest unsigned type, in every ring.
C15_MsbOutWidth ==
  Returned("MsbA2B", 1) =>
    \A i \in Ranks :
      loc[i].out_type = [nbits |-> 1, w |-> calcBShareBacktype(1)]

(***************************************************************************)
(* Arguments the kernels must refuse.                                      *)
(***************************************************************************)
\* party i has drawn nothing, sent nothing and returned nothing
Untouched(i) ==
  /\ cursor[i] = [prss |-> 0, publ |-> 0, priv |-> 0, draws |-> <<>>]
  /\ \A j \in Ranks : chan[<<i, j>>] = <<>>
  /\ \A j \in Ranks : \A n \in 1 .. Len(rlog[j]) : rlog[j][n].from /= i
  /\ out[i] = <<>>

\* C16: EqualAA on two arguments of differing shapes fails before it draws
\* any randomness or sends any message, and returns no output.
C16_EqualAAShapes ==
  (cfg.kernel = "EqualAA" /\ cfg.rhs_numel /= 1) =>
    \A i \in Ranks : pc[i] \in {"start", "failed"} /\ Untouched(i)

\* C17: B2AByPPA and B2AByOT on an input whose nbits exceeds the ring
\* width fail at entry: nothing is drawn, nothing sent, nothing returned.
C17_WideInputFails ==
  (cfg.kernel \in {"B2AByPPA", "B2AByOT"} /\ cfg.nbits > cfg.k) =>
    \A i \in Ranks : pc[i] \in {"start", "failed"} /\ Untouched(i)

C17_WideInputFailsWitness ==
  /\ cfg.kernel = "B2AByOT"
  /\ cfg.nbits = cfg.k + 1
  /\ XorIn(cfg.x) /= {}
  /\ \A i \in Ranks : pc[i] = "failed" /\ Untouched(i)

(***************************************************************************)
(* The local functions on boolean shares.                                  *)
(***************************************************************************)
\* the bits b_1 b_3 ... and the bits b_0 b_2 ... of a word
OddBits(x) == {(b - 1) \div 2 : b \in {c \in x : c % 2 = 1}} \cup {}

EvenBits(x) == {b \div 2 : b \in {c \in x : c % 2 = 0}} \cup {}

\* C18: for every even width from 2 to 128, bit_split returns the pair
\* (hi, lo) of the odd and of the even bits of each slot, both of half the
\* width; for the width 0 and for an odd width it fails.
C18_BitSplit ==
  cfg.kernel = "BitSplit" =>
    \A i \in Ranks :
      /\ ~SplitNbits(cfg.nbits) => (pc[i] \in {"start", "failed"} /\ out[i] = <<>>)
      /\ (SplitNbits(cfg.nbits) /\ Len(out[i]) >= 1) =>
           LET in == InShare(cfg.x, i)
               hi == out[i][1][1]
               lo == out[i][1][2]
           IN /\ hi.nbits = cfg.nbits \div 2
              /\ lo.nbits = cfg.nbits \div 2
              /\ hi.v = <<OddBits(in[1]), OddBits(in[2])>>
              /\ lo.v = <<EvenBits(in[1]), EvenBits(in[2])>>

\* C19: for every even width, bit_split_mss returns in each of its three
\* slots the hi and lo values that bit_split returns for the same slot
\* value, also when the width is not a power of two.
C19_SplitsAgree ==
  cfg.kernel = "BitSplit" =>
    \A i \in Ranks : \A h \in 1 .. 2 :
      Len(out[i]) = 2 =>
        /\ out[i][2][h].nbits = out[i][1][h].nbits
        /\ out[i][2][h].v[1] = out[i][1][h].v[1]
        /\ out[i][2][h].v[2] = out[i][1][h].v[2]
        /\ Len(out[PrevRank(i)]) >= 1 =>
             out[i][2][h].v[3] = out[PrevRank(i)][1][h].v[1]

\* the slots of the sharing z that party i hands to pack_2_bitvec_X
SlotsOf(z, i) ==
  CASE cfg.kernel = "PackUnpackAss" -> <<InShare(z, i)[1]>>
    [] cfg.kernel = "PackUnpackRss" -> InShare(z, i)
    [] cfg.kernel = "PackUnpackMss" -> MssSlots(z, i)

PackUnpacks == {"PackUnpackAss", "PackUnpackRss", "PackUnpackMss"}

\* C20: for every width nbits with 2 * nbits <= 128 and shares lo, hi of
\* that width with no bit set above it, pack_2_bitvec_X(lo, hi) has the
\* width 2 * nbits and unpack_2_bitvec_X of it returns (hi, lo) slot for
\* slot, for X = ass, rss, mss.
C20_PackUnpack ==
  cfg.kernel \in PackUnpacks =>
    \A i \in Ranks :
      /\ Len(out[i]) >= 1 => out[i][1].nbits = 2 * cfg.nbits
      /\ Len(out[i]) = 2 =>
           out[i][2] = <<Shr(SlotsOf(cfg.y, i), cfg.nbits), Shr(SlotsOf(cfg.x, i), cfg.nbits)>>

(***************************************************************************)
(* The gates and the resharings.                                           *)
(***************************************************************************)
\* the value an MSS sharing with the external value D and the masks z holds
MssSecret(D, z) == XOR(D, XorIn(z))

\* party i's second slot is the first slot of party i+1
Replicated(n) == \A i \in Ranks : out[i][n][2] = out[NextRank(i)][n][1]

\* C21: MssAnd2NoComm on two B/MSS sharings of x and y, whatever their
\* masks, returns a B/RSS sharing that reconstructs to x AND y.
C21_MssAnd2 ==
  (cfg.kernel = "MssAnd2NoComm" /\ AllReturned(1)) =>
    /\ Replicated(1)
    /\ XorOut(1) = AND(MssSecret(cfg.c[1], cfg.x), MssSecret(cfg.c[2], cfg.y))

\* the value the run's first operand holds
Secret ==
  IF Plan(cfg.kernel)[1] \in MssGates THEN MssSecret(cfg.c[1], cfg.x) ELSE XorIn(cfg.x)

\* the n-th result is an MSS share
MssResult(n) == Plan(cfg.kernel)[n] \in ResharingKernels

\* the value the parties' n-th results reconstruct to is v: for an MSS share
\* each party's external value with the three masks, else the first slots
Reconstructs(n, v) ==
  IF MssResult(n)
  THEN \A i \in Ranks :
         XOR(out[i][n][1], XOR3(out[0][n][2], out[1][n][2], out[2][n][2])) = v
  ELSE XorOut(n) = v

\* the share party i returned last is declared with nbits bits
DeclaredNbits(i, nbits) == loc[i].out_type.nbits = nbits

Stages == 1 .. 3

HasRss2Mss ==
  \E n \in Stages : n <= Len(Plan(cfg.kernel)) /\ Plan(cfg.kernel)[n] = "ResharingRss2Mss"

BelowNbits(slots, nbits) ==
  \A j \in 1 .. Len(slots) : \A b \in slots[j] : b < nbits

\* C23: when no slot of an input has a bit set above the input's declared
\* nbits, no slot of the output of a gate or of a resharing has a bit set
\* above the output's declared nbits, also when the two operands of a gate
\* are declared with different nbits.
C23_BitsBelowNbits ==
  \A i \in Ranks :
    Len(out[i]) >= 1 =>
      BelowNbits(out[i][Len(out[i])], loc[i].out_type.nbits)

\* every party has returned from the ResharingAss2Rss that is the n-th
\* kernel of the run
Ass2RssDone(n) ==
  /\ n <= Len(Plan(cfg.kernel))
  /\ Plan(cfg.kernel)[n] = "ResharingAss2Rss"
  /\ AllReturned(n)

NoComm ==
  /\ \A p \in Ranks \X Ranks : chan[p] = <<>>
  /\ \A i \in Ranks : rlog[i] = <<>> /\ cursor[i].prss = 0

\* C26 as stated: ResharingRss2Ass is local and gives the additive split in
\* which party 0's share is its first RSS half and the shares of parties 1
\* and 2 are zero.
C26_Rss2AssSplit ==
  cfg.kernel = "ResharingRss2Ass" =>
    /\ NoComm
    /\ AllReturned(1) =>
         /\ out[0][1][1] = cfg.x[1]
         /\ out[1][1][1] = {}
         /\ out[2][1][1] = {}

\* C26 amended: ResharingRss2Ass is local and gives the additive split in
\* which the share of every party is its first RSS half.
C26_Rss2AssSplitAmended ==
  cfg.kernel = "ResharingRss2Ass" =>
    /\ NoComm
    /\ \A i \in Ranks : Len(out[i]) = 1 => out[i][1] = <<cfg.x[i + 1]>>
    /\ AllReturned(1) => XorOut(1) = XorIn(cfg.x)

C26_Rss2AssSplitWitness ==
  /\ cfg.kernel = "ResharingRss2Ass"
  /\ AllReturned(1)
  /\ out[1][1] = <<cfg.x[2]>>
  /\ out[2][1] = <<cfg.x[3]>>
  /\ cfg.x[2] /= {}
  /\ cfg.x[3] /= {}

(***************************************************************************)
(* The first round and the carry network of MsbA2B and A2B.                *)
(***************************************************************************)
\* the value party i reconstructs from the MSS operand f (m or n): its own
\* external value with the first mask of each party
OperandAt(f, i) ==
  XOR(loc[i][f][1], XOR3(loc[0][f][2], loc[1][f][2], loc[2][f][2]))

\* C27: after the first communication round of MsbA2B and of A2B the
\* values of the B/MSS operands m and n are m = x0 + x1 and n = x2, so that
\* m + n = x modulo 2^k, for every A/RSS sharing (x0, x1, x2) of x.
C27_FirstRound ==
  PastFirstRound =>
    \A i \in Ranks :
      /\ OperandAt("m", i) = ADD(cfg.x[1], cfg.x[2], cfg.k)
      /\ OperandAt("n", i) = cfg.x[3]
      /\ ADD(OperandAt("m", i), OperandAt("n", i), cfg.k) = SumIn(cfg.x)

C27_FirstRoundWitness ==
  /\ PastFirstRound
  /\ cfg.kernel = "A2B"
  /\ cfg.k = 32
  /\ OperandAt("m", 2) = ADD(cfg.x[1], cfg.x[2], cfg.k)
  /\ OperandAt("m", 2) /= XOR(cfg.x[1], cfg.x[2])
  /\ OperandAt("n", 0) = cfg.x[3]
  /\ cfg.x[3] /= {}

\* the carry into bit k-1 of m + n, with m = x0 + x1 and n = x2
CarryIntoTop ==
  LET m == ADD(cfg.x[1], cfg.x[2], cfg.k)
      n == cfg.x[3]
  IN (cfg.k - 1) \in XOR3(ADD(m, n, cfg.k), m, n)

\* C28: when the carry loop of MsbA2BMultiFanIn exits, g and p hold one bit
\* for each element and the bit of g reconstructs to the carry into bit
\* k-1 of m + n, for every ring.
C28_CarryLoopExit ==
  Returned("MsbA2B", 1) =>
    /\ \A i \in Ranks : loc[i].exit[1].nbits = 1 /\ loc[i].exit[2].nbits = 1
    /\ XOR3(loc[0].exit[1].v[1], loc[1].exit[1].v[1], loc[2].exit[1].v[1])
         = BitWord(CarryIntoTop)

(***************************************************************************)
(* The cells of the parallel prefix adder.                                 *)
(***************************************************************************)

\* every party has evaluated the cell of level lev (0: PGCell_4FanIn4Out,
\* 1 and 2: PGCell_4FanIn1Out)
CellDone(lev) == \A i \in Ranks : "cells" \in DOMAIN loc[i] /\ Len(loc[i].cells) > lev

\* the word the MSS shares a0, a1, a2 of the three parties stand for, as
\* party 0 sees it
MssWord(a0, a1, a2) == XOR(a0.v[1], XOR3(a0.v[2], a1.v[2], a2.v[2]))

\* operand j (0..3) of the cell of level lev: propagate and generate
POp(lev, j) ==
  MssWord(loc[0].cells[lev + 1].pops[j + 1], loc[1].cells[lev + 1].pops[j + 1],
          loc[2].cells[lev + 1].pops[j + 1])

GOp(lev, j) ==
  MssWord(loc[0].cells[lev + 1].gops[j + 1], loc[1].cells[lev + 1].gops[j + 1],
          loc[2].cells[lev + 1].gops[j + 1])

\* the results of the cell of level lev
POut(lev) ==
  MssWord(loc[0].cells[lev + 1].pr, loc[1].cells[lev + 1].pr, loc[2].cells[lev + 1].pr)

GOut(lev) ==
  MssWord(loc[0].cells[lev + 1].gr, loc[1].cells[lev + 1].gr, loc[2].cells[lev + 1].gr)

\* p'_j = p_0 AND ... AND p_j, position by position of the operands
RECURSIVE PrefixP(_, _)
PrefixP(lev, j) ==
  IF j = 0 THEN POp(lev, 0) ELSE AND(PrefixP(lev, j - 1), POp(lev, j))

\* g'_j = g_j XOR g_(j-1) p_j XOR g_(j-2) p_(j-1) p_j XOR ...
RECURSIVE PrefixG(_, _)
PrefixG(lev, j) ==
  IF j = 0 THEN GOp(lev, 0)
  ELSE XOR(GOp(lev, j), AND(PrefixG(lev, j - 1), POp(lev, j)))

\* the positions of a k-bit word the operands of a cell lie at: the top of
\* each group of four
GroupTops == {b \in 0 .. cfg.k - 1 : b % 4 = 3}

\* C29: PGCell_4FanIn4Out gives for each group of four positions and each j
\* in 0..3 the pair p'_j = p_0 ... p_j and g'_j = g_j XOR g_(j-1) p_j XOR ...,
\* placed at position j of the group; PGCell_4FanIn1Out gives the pair of
\* j = 3 of the same formula.
C29_Cells ==
  /\ CellDone(0) =>
       \A b \in GroupTops : \A j \in 0 .. 3 :
         /\ (b - 3 + j \in POut(0)) <=> (b \in PrefixP(0, j))
         /\ (b - 3 + j \in GOut(0)) <=> (b \in PrefixG(0, j))
  /\ \A lev \in 1 .. 2 :
       CellDone(lev) => POut(lev) = PrefixP(lev, 3) /\ GOut(lev) = PrefixG(lev, 3)

C29_CellsWitness ==
  /\ cfg.k = 64
  /\ CellDone(2)
  /\ 5 \in GOut(0) /\ 7 \notin GOp(0, 1) /\ 1 \in POut(0) /\ 2 \notin POut(0)
  /\ GOut(1) /= {} /\ GOut(1) /= GOp(1, 3)
  /\ GOut(2) /= {} /\ GOut(2) /= GOp(2, 3)
  /\ POut(1) /= {}

(***************************************************************************)
(* The calls of a cell.                                                    *)
(***************************************************************************)

\* the n-th cell party i invoked has returned
CellOver(i, n) == n < Len(CallsOf(loc[i])) \/ Len(out[i]) >= 1

\* the numbers of MSS AND gates, RSS AND gates and downgrades among the calls
Gates(names) ==
  <<Count(names, "MssAnd2NoComm"), Count(names, "RssAnd2NoComm"),
    Count(names, "ResharingMss2Rss")>>

\* the calls end with one resharing of the packed pair to MSS
PackedToMss(names) ==
  /\ Len(names) >= 3
  /\ SubSeq(names, Len(names) - 2, Len(names))
       = <<"pack_2_bitvec_ass", "ResharingAss2Mss", "unpack_2_bitvec_mss">>
  /\ Count(names, "ResharingAss2Mss") = 1

\* the calls end with one resharing of the packed pair to RSS
PackedToRss(names) ==
  /\ Len(names) >= 3
  /\ SubSeq(names, Len(names) - 2, Len(names))
       = <<"pack_2_bitvec_ass", "ResharingAss2Rss", "unpack_2_bitvec_rss">>
  /\ Count(names, "ResharingAss2Mss") = 0

\* the calls hold two resharings to MSS, of generate and of propagate, and
\* neither pack nor unpack
TwoResharings(names) ==
  /\ Count(names, "ResharingAss2Mss") = 2
  /\ Count(names, "pack_2_bitvec_ass") = 0
  /\ Count(names, "unpack_2_bitvec_mss") = 0

\* the draws of more than one element that party i made: those of the cells
CellDraws(i) == SelectSeq(cursor[i].draws, LAMBDA d : d[1] > 1)

\* C30: each invocation of a cell makes three MSS AND gates, five RSS AND
\* gates and three downgrades from MSS to RSS, and reshares propagate and
\* generate to MSS by one resharing of the packed pair.
C30_CellCalls ==
  \A i \in Ranks : \A n \in 1 .. Len(CallsOf(loc[i])) :
    /\ Gates(loc[i].calls[n].names) = <<3, 5, 3>>
    /\ CellOver(i, n) => PackedToMss(loc[i].calls[n].names)

\* the gates and the resharings of each of the three cells
CellProfile(c, last) ==
  CASE c.cell = "PGCell_4FanIn4Out" ->
         [gates |-> <<3, 7, 7>>, draws |-> 10, ends |-> TwoResharings(c.names)]
    [] c.cell = "PGCell_4FanIn1Out" ->
         [gates |-> <<3, 4, 4>>, draws |-> 7, ends |-> TwoResharings(c.names)]
    [] c.cell = "MsbA2BMultiFanIn" ->
         [gates |-> <<6, 3, 2>>, draws |-> 9,
          ends |-> IF last THEN PackedToRss(c.names) ELSE PackedToMss(c.names)]

C30_CellCallsAmended ==
  \A i \in Ranks : \A n \in 1 .. Len(CallsOf(loc[i])) :
    LET c == loc[i].calls[n]
        f == CellProfile(c, n = Len(loc[i].calls))
    IN /\ Gates(c.names) = f.gates
       /\ Len(CellDraws(i)) >= n /\ CellDraws(i)[n][1] = f.draws
       /\ CellOver(i, n) => f.ends

C30_CellCallsWitness ==
  /\ cfg.kernel = "A2B"
  /\ \A i \in Ranks : Len(out[i]) >= 1 /\ Len(CallsOf(loc[i])) = 3
  /\ loc[0].calls[1].cell = "PGCell_4FanIn4Out"
  /\ Gates(loc[0].calls[1].names) = <<3, 7, 7>>
  /\ TwoResharings(loc[0].calls[1].names)
  /\ loc[0].calls[3].cell = "PGCell_4FanIn1Out"
  /\ Gates(loc[0].calls[3].names) = <<3, 4, 4>>

(***************************************************************************)
(* The types of boolean shares.                                            *)
(***************************************************************************)
\* the smallest of the widths 8, 16, 32, 64, 128 that is at least n
SmallestWidth(n) ==
  CHOOSE w \in BackWidths : w >= n /\ \A v \in BackWidths : v >= n => w <= v

\* C24: calcBShareBacktype(n) returns the smallest of the unsigned widths
\* 8, 16, 32, 64, 128 that is at least n for every n from 0 to 128 and fails
\* for n above 128; the constructor of BShrTy fails when nbits is greater
\* than the number of bits of the back type.
C24_Backtype ==
  \A i \in Ranks :
    /\ cfg.kernel = "calcBShareBacktype" =>
         IF cfg.nbits > 128 THEN pc[i] \in {"start", "failed"}
         ELSE /\ pc[i] \in {"start", "done"}
              /\ pc[i] = "done" => loc[i].out_type.w = SmallestWidth(cfg.nbits)
    /\ cfg.kernel = "BShrTy" =>
         IF cfg.nbits > cfg.k THEN pc[i] \in {"start", "failed"}
         ELSE /\ pc[i] \in {"start", "done"}
              /\ pc[i] = "done" => loc[i].out_type = [nbits |-> cfg.nbits, w |-> cfg.k]

C24_BacktypeWitness ==
  /\ cfg.kernel = "calcBShareBacktype"
  /\ cfg.nbits = 128
  /\ \A i \in Ranks : pc[i] = "done" /\ loc[i].out_type.w = 128

(***************************************************************************)
(* The and-tree of eqz.                                                    *)
(***************************************************************************)
\* the rotations tagged tag that party i has completed
Rotations(i, tag) == Cardinality({j \in DOMAIN rlog[i] : rlog[i][j].want = tag})

\* log2 of the ring's width
Log2(k) == CASE k = 32 -> 5 [] k = 64 -> 6 [] k = 128 -> 7

\* the value eqz tests against zero
EqzSecret ==
  IF cfg.kernel = "EqualAA" THEN SUB(SumIn(cfg.x), SumIn(cfg.y), cfg.k)
  ELSE SUB(SumIn(cfg.x), cfg.c, cfg.k)

\* no party can take a step of eqz
EqzHalted == \A i \in Ranks : ~eqzReady(State, i)

\* the kernel of the run calls eqz
CallsEqz == cfg.kernel \in {"EqualAA", "EqualAP"} /\ cfg.rhs_numel = cfg.numel

\* the and-tree has ended at every party after n rotations, each element
\* in one byte of each slot, the least-significant bit being that of x = 0
AndTreeEnds(n) ==
  /\ \A i \in Ranks : Rotations(i, "andbb") <= n
  /\ \A i \in Ranks : Len(out[i]) = 1 =>
        /\ Rotations(i, "andbb") = n
        /\ out[i][1][1] \subseteq Bits(8) /\ out[i][1][2] \subseteq Bits(8)
  /\ (AllReturned(1) /\ cfg.numel > 0) => (0 \in XorOut(1) <=> EqzSecret = {})
  /\ EqzHalted => AllReturned(1)

DistinctRoles == Cardinality({RoleP0(cfg.pivot), RoleP1(cfg.pivot), RoleP2(cfg.pivot)}) = 3

FlagWord == XOR3(loc[0].flag[1], loc[1].flag[1], loc[2].flag[1])

\* C32: in eqz the additive inputs of the two parties other than the dealer
\* (P1: the sum of its two halves, P2: its second half) sum to x, the value
\* opened at P1 is c = x + r for the mask r of the dealer, and the flags of
\* the three parties XOR to NOT(c XOR r), which is all ones iff x = 0.  The
\* parties keep these values until eqz returns, where they are compared; the
\* three roles are those of three different ranks.
C32_EqzOpening ==
  (AllReturned(1) /\ CallsEqz /\ cfg.numel = 1 /\ DistinctRoles) =>
    LET P0 == RoleP0(cfg.pivot)
        P1 == RoleP1(cfg.pivot)
        P2 == RoleP2(cfg.pivot)
    IN /\ ADD(loc[P1].a_s, loc[P2].a_s, cfg.k) = EqzSecret
       /\ loc[P1].c_p = ADD(EqzSecret, loc[P0].r, cfg.k)
       /\ FlagWord = NOTw(XOR(loc[P1].c_p, loc[P0].r), cfg.k)
       /\ FlagWord = Bits(cfg.k) <=> EqzSecret = {}

C32_EqzOpeningWitness ==
  /\ cfg.kernel = "EqualAP" /\ cfg.numel = 1 /\ cfg.k = 64
  /\ AllReturned(1) /\ DistinctRoles
  /\ loc[RoleP0(cfg.pivot)].r /= {}
  /\ EqzSecret /= {}
  /\ loc[RoleP1(cfg.pivot)].c_p = ADD(EqzSecret, loc[RoleP0(cfg.pivot)].r, cfg.k)
  /\ FlagWord = NOTw(XOR(loc[RoleP1(cfg.pivot)].c_p, loc[RoleP0(cfg.pivot)].r), cfg.k)
  /\ FlagWord /= Bits(cfg.k)


(***************************************************************************)
(* The messages of B2AByOT.                                                *)
(***************************************************************************)
OTTags == {"mc", "m0", "m1", "c2"}

\* the tags of the messages party i has received from rank a, oldest first
TagsGot(i, a) ==
  LET q == SelectSeq(rlog[i], LAMBDA m : m.from = a)
  IN [j \in 1 .. Len(q) |-> q[j].got]

\* the tags of the messages in flight from rank a to rank b, oldest first
TagsInFlight(a, b) == [j \in 1 .. Len(chan[<<a, b>>]) |-> chan[<<a, b>>][j].tag]

\* the tags of B2AByOT sent so far from rank a to rank b, in the order sent
OTSent(a, b) ==
  SelectSeq(TagsGot(b, a) \o TagsInFlight(a, b), LAMBDA t : t \in OTTags)

\* the tags of B2AByOT party i has received so far, in the order received
OTReceived(i) ==
  SelectSeq([j \in 1 .. Len(rlog[i]) |-> rlog[i][j].got], LAMBDA t : t \in OTTags)

\* the first kernel of the run is B2AByOT and takes its exchange
RunsOT ==
  /\ \/ cfg.kernel = "OTthenPPA"
     \/ cfg.kernel = "B2ASelector" /\ B2ASelector(cfg.nbits) = "B2AByOT"
  /\ cfg.nbits \in 1 .. cfg.k

OTHalted == \A i \in Ranks : ~B2AByOTReady(State, i)

C34_OTRebuild ==
  (RunsOT /\ DistinctRoles /\ AllReturned(1)) =>
    LET P0 == RoleP0(cfg.pivot)
        P1 == RoleP1(cfg.pivot)
        P2 == RoleP2(cfg.pivot)
        k  == cfg.k
        c1 == loc[P0].ot_r0
        c3 == loc[P2].ot_r0
    IN /\ loc[P2].ot_r1 = c1
       /\ loc[P1].r1 = c3
       /\ \A j \in 1 .. cfg.nbits :
            loc[P1].ot_mc[j]
              = SUB(SUB(BitWord((j - 1) \in XorIn(cfg.x)), c1[j], k), c3[j], k)
       /\ out[P1][1][1] = bitCompose(loc[P1].ot_mc, cfg.nbits, k)
       /\ SumOut(1) = XorIn(cfg.x)

\* three bits of which the receiver chooses m0 for one and m1 for another
C34_OTRebuildWitness ==
  /\ RunsOT /\ DistinctRoles /\ AllReturned(1)
  /\ cfg.nbits = 3
  /\ \E a, b \in 1 .. 3 : loc[RoleP1(cfg.pivot)].b2[a] /\ ~loc[RoleP1(cfg.pivot)].b2[b]
  /\ XorIn(cfg.x) \notin {{}, {0, 1, 2}}
  /\ \A j \in 1 .. 3 : loc[RoleP0(cfg.pivot)].ot_r0[j] /= {}
  /\ \A j \in 1 .. 3 : loc[RoleP2(cfg.pivot)].ot_r0[j] /= {}
  /\ SumOut(1) = XorIn(cfg.x)


(***************************************************************************)
(* The messages of B2AByPPA.                                               *)
(***************************************************************************)
PPATags == {"b2a.rand", "reveal.x_plus_r.to.P0", "b2a.rotate"}

Range(q) == {q[j] : j \in DOMAIN q}

\* the tags of B2AByPPA sent so far from rank a to rank b, in the order sent
PPASent(a, b) ==
  SelectSeq(TagsGot(b, a) \o TagsInFlight(a, b), LAMBDA t : t \in PPATags)

\* the receptions of B2AByPPA at party i so far, in order
PPAReceived(i) == SelectSeq(rlog[i], LAMBDA m : m.got \in PPATags)

\* what party i asks for in B2AByPPA, call after call
PPARecvs(i) ==
  IF i = 0
  THEN <<[from |-> RotateFrom(0), tag |-> "b2a.rand"],
         [from |-> 2, tag |-> "reveal.x_plus_r.to.P0"],
         [from |-> RotateFrom(0), tag |-> "b2a.rotate"]>>
  ELSE <<[from |-> RotateFrom(i), tag |-> "b2a.rand"],
         [from |-> RotateFrom(i), tag |-> "b2a.rotate"]>>

\* what rank a sends to rank b in B2AByPPA, in order
PPASends(a, b) ==
  SelectSeq(<<"b2a.rand", "reveal.x_plus_r.to.P0", "b2a.rotate">>,
            LAMBDA t : IF t = "reveal.x_plus_r.to.P0"
                         THEN a = 2 /\ b = 0
                         ELSE b = RotateTo(a))

\* the place of B2AByPPA in the plan of the run
PPAStage == IF cfg.kernel = "OTthenPPA" THEN 2 ELSE 1

RunsPPA ==
  /\ \/ cfg.kernel = "OTthenPPA"
     \/ cfg.kernel = "B2ASelector" /\ B2ASelector(cfg.nbits) = "B2AByPPA"
  /\ cfg.nbits \in 1 .. cfg.k

\* C35: in a call of B2AByPPA on 1 <= nbits <= k bits the share of x + r is
\* sent from rank 2 to rank 0 and to no other party, so that rank 0 alone
\* receives the third boolean share; every party receives the rotation
\* "b2a.rand" first and the rotation "b2a.rotate" last, rank 0 receives the
\* reveal between the two and rank 2 sends it after it has received
\* "b2a.rand" and before it sends "b2a.rotate"; the first slots of the
\* result are x + r, -ra_1 and -ra_2 with r = ra_1 + ra_2, and sum to x.
C35_PPAReveal ==
  RunsPPA =>
    /\ \A a, b \in Ranks : IsPrefix(PPASent(a, b), PPASends(a, b))
    /\ \A i \in Ranks :
         /\ Len(PPAReceived(i)) <= Len(PPARecvs(i))
         /\ \A j \in 1 .. Len(PPAReceived(i)) :
              /\ PPAReceived(i)[j].from = PPARecvs(i)[j].from
              /\ PPAReceived(i)[j].want = PPARecvs(i)[j].tag
              /\ PPAReceived(i)[j].got = PPARecvs(i)[j].tag
    /\ "reveal.x_plus_r.to.P0" \in Range(PPASent(2, 0)) =>
         /\ PPAReceived(2) /= <<>>
         /\ "b2a.rotate" \in Range(PPASent(2, RotateTo(2)))
    /\ AllReturned(PPAStage) =>
         LET r == ADD(loc[1].ra[1], loc[1].ra[2], cfg.k)
         IN /\ \A i \in Ranks : Len(PPAReceived(i)) = Len(PPARecvs(i))
            /\ loc[2].ra[1] = loc[1].ra[2]
            /\ out[0][PPAStage][1] = ADD(XorIn(cfg.x), r, cfg.k)
            /\ out[1][PPAStage][1] = NEG(loc[1].ra[1], cfg.k)
            /\ out[2][PPAStage][1] = NEG(loc[2].ra[1], cfg.k)
            /\ SumOut(PPAStage) = XorIn(cfg.x)

\* rank 0 has taken the reveal from rank 2 between the two rotations
C35_PPARevealWitness ==
  /\ RunsPPA
  /\ cfg.nbits = 32
  /\ AllReturned(PPAStage)
  /\ Len(PPAReceived(0)) = 3
  /\ PPAReceived(0)[2].from = 2
  /\ PPAReceived(0)[2].got = "reveal.x_plus_r.to.P0"
  /\ XorIn(cfg.x) /= {}
  /\ ADD(loc[1].ra[1], loc[1].ra[2], cfg.k) /= {}
  /\ out[0][PPAStage][1] /= XorIn(cfg.x)
  /\ SumOut(PPAStage) = XorIn(cfg.x)


(***************************************************************************)
(* The AND gates without communication.                                    *)
(***************************************************************************)
\* no party has sent or received a message
NoMessage ==
  /\ \A p \in Ranks \X Ranks : chan[p] = <<>>
  /\ \A i \in Ranks : rlog[i] = <<>>

\* the values of the four operands of the run's AND gate
Op1Secret == MssSecret(cfg.c[1], cfg.x)

Op2Secret == MssSecret(cfg.c[2], cfg.y)

Op3Secret == MssSecret(XOR(cfg.c[1], XorIn(cfg.x)), HandRound(cfg.x))

Op4Secret == MssSecret(XOR(cfg.c[2], XorIn(cfg.y)), HandRound(cfg.y))

\* C36: RssAnd2NoComm on B/RSS sharings of x and y returns, without any
\* message, one share a_i per party with a_0 XOR a_1 XOR a_2 = x AND y;
\* MssAnd3NoComm and MssAnd4NoComm return, without any message, one share
\* per party whose XOR is the AND of their three and four B/MSS operands.
C36_AndNoComm ==
  /\ cfg.kernel \in {"RssAnd2NoComm", "MssAnd3NoComm", "MssAnd4NoComm"} =>
       /\ NoMessage
       /\ \A i \in Ranks : Len(out[i]) = 1 => Len(out[i][1]) = 1
  /\ (cfg.kernel = "RssAnd2NoComm" /\ AllReturned(1)) =>
       XorOut(1) = AND(XorIn(cfg.x), XorIn(cfg.y))
  /\ (cfg.kernel = "MssAnd3NoComm" /\ AllReturned(1)) =>
       XorOut(1) = AND(AND(Op1Secret, Op2Secret), Op3Secret)
  /\ (cfg.kernel = "MssAnd4NoComm" /\ AllReturned(1)) =>
       XorOut(1) = AND(AND(Op1Secret, Op2Secret), AND(Op3Secret, Op4Secret))


(***************************************************************************)
(* Where the kernels communicate.                                          *)
(***************************************************************************)
\* the runs of the operations that are local
LocalRun ==
  cfg.kernel \in GateKernels \cup {"BitSplit", "PackUnpackAss", "PackUnpackRss",
                                   "PackUnpackMss"}

\* party i can take its next step of a local operation
LocalReady(i) ==
  \/ GateReady(State, i)
  \/ BitSplitReady(State, i)
  \/ PackReady(State, i)
  \/ UnpackReady(State, i)

\* the tags of the first round of MsbA2B and A2B, which shares m and n
FirstRoundTags ==
  {"MsbA2B, special resharing from ASS to MSS, broadcast Dm",
   "MsbA2B, special resharing from ASS to MSS, send dn2",
   "MsbA2B, special resharing from ASS to MSS, get dn2"}

\* the tags of ResharingAss2Mss and of ResharingAss2Rss
AssResharingTags ==
  {"Resharing ASS to MSS, online, message 1",
   "Resharing ASS to MSS, online, message 2",
   "Resharing ASS to RSS, online"}

\* the tags of the messages sent so far, received or in flight
TagsSent ==
  UNION {Range(TagsInFlight(p[1], p[2])) : p \in Ranks \X Ranks}
    \cup UNION {{rlog[i][j].got : j \in DOMAIN rlog[i]} : i \in Ranks}

\* party i has received, in order, messages of the first round and then
\* messages of the resharings
FirstRoundFirst(i) ==
  \A a, b \in DOMAIN rlog[i] :
    (a < b /\ rlog[i][b].got \in FirstRoundTags) => rlog[i][a].got \in FirstRoundTags

\* C37: AssXor2, RssXor2, MssXor2, ResharingMss2Rss, ResharingRss2Ass, the
\* AND gates without communication, pack and unpack, bit_split and
\* bit_split_mss send no message, receive no message and go on whenever
\* they have not returned; every message of MsbA2B and A2B belongs to the
\* first round, which shares m and n, or to a resharing from ASS to MSS or
\* from ASS to RSS that follows it.
C37_LocalOps ==
  /\ LocalRun =>
       /\ NoMessage
       /\ \A i \in Ranks : Running(State, i) => LocalReady(i)
  /\ cfg.kernel \in {"MsbA2B", "A2B"} =>
       /\ TagsSent \subseteq FirstRoundTags \cup AssResharingTags
       /\ \A i \in Ranks : FirstRoundFirst(i)

\* an MsbA2B that has returned after the first round and both resharings
C37_LocalOpsWitness ==
  /\ cfg.kernel = "MsbA2B"
  /\ AllReturned(1)
  /\ TagsSent \cap FirstRoundTags /= {}
  /\ "Resharing ASS to MSS, online, message 1" \in TagsSent
  /\ "Resharing ASS to RSS, online" \in TagsSent
  /\ \A i \in Ranks : Len(rlog[i]) > 2


(***************************************************************************)
(* The channels when a kernel has returned.                                *)
(***************************************************************************)
EqzTags == {"r_arith", "r_bool", "c_s", "flag_split", "andbb"}

\* the tags of the messages of a kernel that communicates
TagsOf(kernel) ==
  CASE kernel = "B2AByOT" -> OTTags
    [] kernel = "B2AByPPA" -> PPATags
    [] kernel = "B2ASelector" -> OTTags \cup PPATags
    [] kernel \in {"EqualAA", "EqualAP"} -> EqzTags
    [] kernel \in {"MsbA2B", "A2B"} -> FirstRoundTags \cup AssResharingTags
    [] OTHER -> {}

\* the tags of the messages in flight
TagsFlying == UNION {Range(TagsInFlight(p[1], p[2])) : p \in Ranks \X Ranks}

\* the n-th kernel of the plan is one of the five and has sent a message
Communicated(n) ==
  /\ n <= Len(Plan(cfg.kernel))
  /\ TagsOf(Plan(cfg.kernel)[n]) /= {}
  /\ \E i \in Ranks : \E j \in DOMAIN rlog[i] :
       rlog[i][j].got \in TagsOf(Plan(cfg.kernel)[n])

NothingDrawn(i) ==
  cursor[i] = [prss |-> 0, publ |-> 0, priv |-> 0, draws |-> <<>>]

\* C39: B2AByOT and B2AByPPA called with nbits = 0 return the share (0, 0)
\* at every party, whatever the pivot would be; no party sends or receives
\* a message or draws from a generator, so that channels and cursors stay
\* as they were, and no party waits for another.
C39_NoBits ==
  (cfg.kernel = "OTthenPPA" /\ cfg.nbits = 0) =>
    /\ NoMessage
    /\ \A i \in Ranks :
         /\ NothingDrawn(i)
         /\ \A n \in DOMAIN out[i] : out[i][n] = <<{}, {}>>
         /\ Running(State, i) => (B2AByOTReady(State, i) \/ B2AByPPAReady(State, i))
         /\ pc[i] /= "failed"

\* both kernels have returned at all parties under a pivot of colliding roles
C39_NoBitsWitness ==
  /\ cfg.kernel = "OTthenPPA"
  /\ cfg.nbits = 0
  /\ cfg.pivot = Bits(SizeTBits)
  /\ AllReturned(2)
  /\ \A i \in Ranks : out[i] = <<(<<{}, {}>>), (<<{}, {}>>)>>
  /\ \A i \in Ranks : pc[i] = "done"

====
